---- MODULE Spec2Model ----
(***************************************************************************)
(* State-machine model of the vectordb engine: values, schemas, tuples,    *)
(* datasets with hash indices and lazy columns, the planner and the        *)
(* physical operators, aggregation, tensors with their kernels and the     *)
(* LET statements, the registry of named database instances, and the HTTP  *)
(* front end that serializes statements through a mutex.                   *)
(*                                                                         *)
(* Arc<Schema> is modelled as a record [ptr, fields]: ptr is the address   *)
(* of the allocation (Arc::ptr_eq compares it), fields the immutable       *)
(* content.  f32 values are modelled as integers counting halves, so       *)
(* Float(1.0) is FloatV(2) and Float(1.5) is FloatV(3).                     *)
(***************************************************************************)
EXTENDS Integers, Sequences, FiniteSets, TLC

VARIABLES databases, active_db, config, last, srv

vars == <<databases, active_db, config, last, srv>>

(***************************************************************************)
(* Bounds of the model.                                                    *)
(***************************************************************************)
MaxRows == 2
MaxCols == 2
MaxIds == 2
MaxDbs == 2
MaxTensors == 2
MaxTensorIds == 3
\* the row IDs one list of an index may hold
MaxEntries == 3

EmptyFn == [k \in {} |-> k]

Range(f) == {f[k] : k \in DOMAIN f}

(***************************************************************************)
(* core/value.rs                                                           *)
(***************************************************************************)
\* A Value is [t, i, s, x]: the variant tag, the numeric payload, the string
\* payload and the vector payload (a sequence of halves).
IntV(n) == [t |-> "Int", i |-> n, s |-> "", x |-> <<>>]
FloatV(h) == [t |-> "Float", i |-> h, s |-> "", x |-> <<>>]
StrV(str) == [t |-> "String", i |-> 0, s |-> str, x |-> <<>>]
BoolV(b) == [t |-> "Bool", i |-> IF b THEN 1 ELSE 0, s |-> "", x |-> <<>>]
VecV(xs) == [t |-> "Vector", i |-> 0, s |-> "", x |-> xs]
NullV == [t |-> "Null", i |-> 0, s |-> "", x |-> <<>>]

\* Option::None of a lookup that yields a Value
NoneV == [t |-> "None", i |-> 0, s |-> "", x |-> <<>>]

\* ValueType: [k, d], d the dimension of Vector(d) and 0 otherwise
ScalarT(k) == [k |-> k, d |-> 0]
VectorT(d) == [k |-> "Vector", d |-> d]

\* Value::value_type
value_type(v) == IF v.t = "Vector" THEN VectorT(Len(v.x)) ELSE ScalarT(v.t)

\* Value::is_null
is_null(v) == v.t = "Null"

\* Value::matches_type
matches_type(v, ty) ==
  \/ v.t = "Null"
  \/ v.t = "Vector" /\ ty.k = "Vector" /\ Len(v.x) = ty.d
  \/ v.t # "Vector" /\ ty.k # "Vector" /\ v.t = ty.k

IntCmp(a, b) == IF a < b THEN "Less" ELSE IF a > b THEN "Greater" ELSE "Equal"

\* str::cmp on the strings the model uses (byte-wise lexicographic order)
StrRank(str) ==
  CASE str = "" -> 0
    [] str = "1" -> 1
    [] str = "2" -> 2
    [] str = "NULL" -> 3
    [] str = "false" -> 4
    [] str = "true" -> 5
    [] OTHER -> 6

\* Value::compare; "None" stands for Option::None
compare(a, b) ==
  CASE a.t = "Float" /\ b.t = "Float" -> IntCmp(a.i, b.i)
    [] a.t = "Int" /\ b.t = "Int" -> IntCmp(a.i, b.i)
    [] a.t = "String" /\ b.t = "String" -> IntCmp(StrRank(a.s), StrRank(b.s))
    [] a.t = "Bool" /\ b.t = "Bool" -> IntCmp(a.i, b.i)
    [] a.t = "Null" /\ b.t = "Null" -> "Equal"
    [] a.t = "Null" /\ b.t # "Null" -> "Less"
    [] a.t # "Null" /\ b.t = "Null" -> "Greater"
    [] a.t = "Float" /\ b.t = "Int" -> IntCmp(a.i, 2 * b.i)
    [] a.t = "Int" /\ b.t = "Float" -> IntCmp(2 * a.i, b.i)
    [] OTHER -> "None"

(***************************************************************************)
(* Display of integers and floats, as used by to_string                    *)
(***************************************************************************)
Digit(d) ==
  CASE d = 0 -> "0" [] d = 1 -> "1" [] d = 2 -> "2" [] d = 3 -> "3"
    [] d = 4 -> "4" [] d = 5 -> "5" [] d = 6 -> "6" [] d = 7 -> "7"
    [] d = 8 -> "8" [] d = 9 -> "9"

RECURSIVE NatToString(_)
NatToString(n) ==
  IF n < 10 THEN Digit(n) ELSE NatToString(n \div 10) \o Digit(n % 10)

\* i64::to_string
IntToString(n) == IF n < 0 THEN "-" \o NatToString(0 - n) ELSE NatToString(n)

\* f32::to_string of h/2: "1" for 1.0, "1.5" for 1.5, "-0.5" for -0.5
FloatToString(h) ==
  LET m == IF h < 0 THEN 0 - h ELSE h
      body == IF m % 2 = 0 THEN NatToString(m \div 2)
              ELSE NatToString(m \div 2) \o ".5"
  IN IF h < 0 THEN "-" \o body ELSE body

\* f32 Debug formatting: "1.0" for 1.0, "1.5" for 1.5
FloatToDebug(h) ==
  LET m == IF h < 0 THEN 0 - h ELSE h
      body == IF m % 2 = 0 THEN NatToString(m \div 2) \o ".0"
              ELSE NatToString(m \div 2) \o ".5"
  IN IF h < 0 THEN "-" \o body ELSE body

RECURSIVE VecItems(_)
VecItems(xs) ==
  IF Len(xs) = 0 THEN ""
  ELSE IF Len(xs) = 1 THEN FloatToDebug(xs[1])
  ELSE FloatToDebug(xs[1]) \o ", " \o VecItems(Tail(xs))

\* format!("{:?}", v) of a Vec<f32>
VecToString(xs) == "[" \o VecItems(xs) \o "]"

(***************************************************************************)
(* core/index/hash.rs                                                      *)
(***************************************************************************)
\* HashIndex::get_key
get_key(v) ==
  CASE v.t = "Int" -> IntToString(v.i)
    [] v.t = "Float" -> FloatToString(v.i)
    [] v.t = "String" -> v.s
    [] v.t = "Bool" -> (IF v.i = 1 THEN "true" ELSE "false")
    [] v.t = "Vector" -> VecToString(v.x)
    [] v.t = "Null" -> "NULL"

\* HashIndex::new
HashIndexNew == [kind |-> "Hash", map |-> EmptyFn, vectors |-> <<>>]

\* HashIndex::add (never fails): [ok, index]
HashIndexAdd(index, row_id, v) ==
  LET key == get_key(v)
      old == IF key \in DOMAIN index.map THEN index.map[key] ELSE <<>>
  IN [ok |-> TRUE,
      index |-> [index EXCEPT !.map = (key :> Append(old, row_id)) @@ index.map]]

\* HashIndex::lookup
HashIndexLookup(index, v) ==
  LET key == get_key(v)
  IN IF key \in DOMAIN index.map THEN index.map[key] ELSE <<>>

(***************************************************************************)
(* core/index/vector.rs.  The index is the list of [row_id, data] pairs.   *)
(***************************************************************************)
\* VectorIndex::new
VectorIndexNew == [kind |-> "Vector", map |-> EmptyFn, vectors |-> <<>>]

\* VectorIndex::add: [ok, index]
VectorIndexAdd(index, row_id, v) ==
  CASE v.t = "Vector" ->
         [ok |-> TRUE,
          index |-> [index EXCEPT !.vectors =
                       Append(index.vectors, [row_id |-> row_id, data |-> v.x])]]
    [] v.t = "Null" -> [ok |-> TRUE, index |-> index]
    [] OTHER -> [ok |-> FALSE, index |-> index]

RECURSIVE SumSeq(_)
SumSeq(xs) == IF xs = <<>> THEN 0 ELSE Head(xs) + SumSeq(Tail(xs))

Dot(xs, ys) == SumSeq([j \in 1..Len(xs) |-> xs[j] * ys[j]])

\* VectorIndex::cosine_similarity, for vectors of one length: the score is
\* dot / sqrt(norm2), kept as the pair so that scores compare exactly; a
\* zero norm gives the score 0
cosine_similarity(t1, t2) ==
  IF Dot(t1, t1) = 0 \/ Dot(t2, t2) = 0 THEN [dot |-> 0, norm2 |-> 1]
  ELSE [dot |-> Dot(t1, t2), norm2 |-> Dot(t1, t1) * Dot(t2, t2)]

\* partial_cmp of two scores gives Greater
ScoreGreater(a, b) ==
  IF a.dot >= 0 /\ b.dot < 0 THEN TRUE
  ELSE IF a.dot < 0 /\ b.dot >= 0 THEN FALSE
  ELSE IF a.dot >= 0
  THEN a.dot * a.dot * b.norm2 > b.dot * b.dot * a.norm2
  ELSE a.dot * a.dot * b.norm2 < b.dot * b.dot * a.norm2

\* the stable sort by score descending of the first n scored entries
RECURSIVE SortByScore(_, _)
SortByScore(scores, n) ==
  IF n = 0 THEN <<>>
  ELSE LET sorted == SortByScore(scores, n - 1)
           e == scores[n]
           keep == {j \in 1..Len(sorted) : ~ScoreGreater(e.score, sorted[j].score)}
           pos == Cardinality(keep)
       IN IF keep = 1..pos
          THEN SubSeq(sorted, 1, pos) \o <<e>> \o SubSeq(sorted, pos + 1, Len(sorted))
          ELSE sorted \o <<e>>

\* VectorIndex::search: [ok, ids] with the row IDs of the k best scores
VectorIndexSearch(index, query, k) ==
  LET scores == [j \in 1..Len(index.vectors) |->
                   [row_id |-> index.vectors[j].row_id,
                    score |-> cosine_similarity(query, index.vectors[j].data)]]
      sorted == SortByScore(scores, Len(scores))
      top == SubSeq(sorted, 1, IF k < Len(sorted) THEN k ELSE Len(sorted))
  IN IF \E j \in 1..Len(index.vectors) : Len(index.vectors[j].data) # Len(query)
     THEN [ok |-> FALSE, ids |-> <<>>]
     ELSE [ok |-> TRUE, ids |-> [j \in 1..Len(top) |-> top[j].row_id]]

(***************************************************************************)
(* core/tuple.rs                                                           *)
(***************************************************************************)
\* Field::new: not nullable, not lazy
FieldNew(name, ty) ==
  [name |-> name, value_type |-> ty, nullable |-> FALSE, is_lazy |-> FALSE]

\* Field::is_compatible
is_compatible(field, v) ==
  IF is_null(v) THEN field.nullable
  ELSE /\ field.value_type.k # "Null"
       /\ value_type(v) = field.value_type

\* Schema::get_field_index: the name -> index map collected in Schema::new
\* keeps the last index of a name; 0 stands for Option::None
get_field_index(fields, name) ==
  LET hits == {j \in 1..Len(fields) : fields[j].name = name}
  IN IF hits = {} THEN 0 ELSE CHOOSE j \in hits : \A h \in hits : h <= j

\* Schema::get_field (as a test for presence)
has_field(fields, name) == get_field_index(fields, name) # 0

\* Schema::validate
validate(fields, values) ==
  /\ Len(values) = Len(fields)
  /\ \A j \in 1..Len(fields) : is_compatible(fields[j], values[j])

\* Arc::new(Schema::new(fields)) placed at address ptr
SchemaAt(ptr, fields) == [ptr |-> ptr, fields |-> fields]

\* Tuple::new: Ok(tuple) iff the values validate against the schema
TupleNewOk(schema, values) == validate(schema.fields, values)

TupleOf(schema, values) == [schema |-> schema, values |-> values]

\* Tuple::get: looks the name up in the row's own schema
TupleGet(row, name) ==
  LET idx == get_field_index(row.schema.fields, name)
  IN IF idx = 0 \/ idx > Len(row.values) THEN NoneV ELSE row.values[idx]

(***************************************************************************)
(* query/logical.rs: Expr.  An expression is a leaf (Column or Literal) or *)
(* a Binary over two leaves: [k, name, val, op, left, right].              *)
(***************************************************************************)
LeafCol(name) == [k |-> "Column", name |-> name, val |-> NullV]
LeafLit(v) == [k |-> "Literal", name |-> "", val |-> v]
NoLeaf == LeafLit(NullV)

ColE(name) ==
  [k |-> "Column", name |-> name, val |-> NullV, op |-> "",
   left |-> NoLeaf, right |-> NoLeaf]
LitE(v) ==
  [k |-> "Literal", name |-> "", val |-> v, op |-> "",
   left |-> NoLeaf, right |-> NoLeaf]
BinE(l, op, r) ==
  [k |-> "Binary", name |-> "", val |-> NullV, op |-> op,
   left |-> l, right |-> r]

(***************************************************************************)
(* query/physical.rs: evaluate_expression                                  *)
(***************************************************************************)
\* Column and Literal arms
EvalLeaf(leaf, row) ==
  IF leaf.k = "Column"
  THEN LET v == TupleGet(row, leaf.name) IN IF v = NoneV THEN NullV ELSE v
  ELSE leaf.val

\* i64 division truncates toward zero
TruncDiv(l, r) ==
  LET al == IF l < 0 THEN 0 - l ELSE l
      ar == IF r < 0 THEN 0 - r ELSE r
      q == al \div ar
  IN IF (l < 0) = (r < 0) THEN q ELSE 0 - q

\* the (Int, Int) arm
IntArith(l, op, r) ==
  CASE op = "+" -> IntV(l + r)
    [] op = "-" -> IntV(l - r)
    [] op = "*" -> IntV(l * r)
    [] op = "/" -> (IF r # 0 THEN IntV(TruncDiv(l, r)) ELSE NullV)
    [] OTHER -> NullV

\* the Float arms on halves; "*" and "/" are exact only when the result is a
\* multiple of one half, which holds for the operands the model draws
FloatArith(l, op, r) ==
  CASE op = "+" -> FloatV(l + r)
    [] op = "-" -> FloatV(l - r)
    [] op = "*" -> FloatV(TruncDiv(l * r, 2))
    [] op = "/" /\ r # 0 -> FloatV(TruncDiv(2 * l, r))
    [] OTHER -> NullV

\* BinaryExpr arm
BinaryArith(lv, op, rv) ==
  CASE lv.t = "Int" /\ rv.t = "Int" -> IntArith(lv.i, op, rv.i)
    [] lv.t = "Float" /\ rv.t = "Float" -> FloatArith(lv.i, op, rv.i)
    [] lv.t = "Int" /\ rv.t = "Float" -> FloatArith(2 * lv.i, op, rv.i)
    [] lv.t = "Float" /\ rv.t = "Int" -> FloatArith(lv.i, op, 2 * rv.i)
    [] OTHER -> NullV

evaluate_expression(expr, row) ==
  CASE expr.k = "Column" -> EvalLeaf(LeafCol(expr.name), row)
    [] expr.k = "Literal" -> expr.val
    [] expr.k = "Binary" ->
         BinaryArith(EvalLeaf(expr.left, row), expr.op, EvalLeaf(expr.right, row))
    [] OTHER -> NullV

(***************************************************************************)
(* core/dataset.rs.  A Dataset is                                          *)
(*   [id, schema, rows, row_count, name, indices, lazy_expressions]        *)
(* with row_count and name the fields of its metadata.  Fallible methods   *)
(* return [ok, ds]: on Err the dataset is returned as the method left it.  *)
(***************************************************************************)
\* a metadata refresh that leaves the recorded count as it was
update_stats_stale(ds) == ds

\* DatasetMetadata::update_stats
update_stats(ds) == [ds EXCEPT !.row_count = Len(ds.rows)]

\* Dataset::new
DatasetNew(id, schema, name) ==
  update_stats([id |-> id, schema |-> schema, rows |-> <<>>, row_count |-> 0,
                name |-> name, indices |-> EmptyFn,
                lazy_expressions |-> EmptyFn])

\* Dataset::get_rows_by_ids: row IDs are 0-based positions; out-of-range IDs
\* are skipped
RECURSIVE get_rows_by_ids(_, _)
get_rows_by_ids(ds, row_ids) ==
  IF row_ids = <<>> THEN <<>>
  ELSE LET id == Head(row_ids)
           rest == get_rows_by_ids(ds, Tail(row_ids))
       IN IF id < Len(ds.rows) THEN <<ds.rows[id + 1]>> \o rest ELSE rest

\* Index::add through the trait object: [ok, index]
IndexAdd(index, row_id, v) ==
  IF index.kind = "Hash" THEN HashIndexAdd(index, row_id, v)
  ELSE VectorIndexAdd(index, row_id, v)

\* Index::lookup through the trait object: [ok, ids]
IndexLookup(index, v) ==
  IF index.kind = "Hash" THEN [ok |-> TRUE, ids |-> HashIndexLookup(index, v)]
  ELSE [ok |-> FALSE, ids |-> <<>>]

\* the body of the index loops of add_row and create_index for one row
IndexAddRow(index, col, row_id, row) ==
  LET v == TupleGet(row, col)
  IN IF v = NoneV THEN [ok |-> TRUE, index |-> index]
     ELSE IndexAdd(index, row_id, v)

\* the orders in which a HashMap with these keys may be iterated
IterOrders(keys) ==
  {o \in [1..Cardinality(keys) -> keys] :
     \A i, j \in 1..Cardinality(keys) : o[i] = o[j] => i = j}

\* the index-update loop of add_row over the first n columns of the
\* iteration order; it stops at the first index that rejects the value
RECURSIVE UpdateIndices(_, _, _, _, _)
UpdateIndices(indices, order, n, row_id, row) ==
  IF n = 0 THEN [ok |-> TRUE, indices |-> indices]
  ELSE LET prev == UpdateIndices(indices, order, n - 1, row_id, row)
           col == order[n]
           r == IndexAddRow(prev.indices[col], col, row_id, row)
       IN IF ~prev.ok THEN prev
          ELSE [ok |-> r.ok,
                indices |-> [prev.indices EXCEPT ![col] = r.index]]

\* Dataset::add_row; order is the iteration order of the indices map.  The
\* indices updated before a rejecting one keep the new row ID.
add_row(ds, row, order) ==
  IF row.schema.ptr # ds.schema.ptr THEN [ok |-> FALSE, ds |-> ds]
  ELSE LET r == UpdateIndices(ds.indices, order, Len(order), Len(ds.rows), row)
       IN IF ~r.ok THEN [ok |-> FALSE, ds |-> [ds EXCEPT !.indices = r.indices]]
          ELSE [ok |-> TRUE,
                ds |-> update_stats([ds EXCEPT !.indices = r.indices,
                                               !.rows = Append(ds.rows, row)])]

\* Dataset::schema_has_field
schema_has_field(ds, name) ==
  \E j \in 1..Len(ds.schema.fields) : ds.schema.fields[j].name = name

\* the population loop of create_index over rows 1..n: [ok, index]
RECURSIVE PopulateIndex(_, _, _, _)
PopulateIndex(index, col, rows, n) ==
  IF n = 0 THEN [ok |-> TRUE, index |-> index]
  ELSE LET prev == PopulateIndex(index, col, rows, n - 1)
       IN IF ~prev.ok THEN prev
          ELSE IndexAddRow(prev.index, col, n - 1, rows[n])

\* Dataset::create_index
create_index(ds, column_name, index) ==
  LET r == PopulateIndex(index, column_name, ds.rows, Len(ds.rows))
  IN IF ~schema_has_field(ds, column_name) THEN [ok |-> FALSE, ds |-> ds]
     ELSE IF ~r.ok THEN [ok |-> FALSE, ds |-> ds]
     ELSE [ok |-> TRUE,
           ds |-> [ds EXCEPT !.indices = (column_name :> r.index) @@ ds.indices]]

\* the rows of a dataset rebuilt under a new schema with one more value each
ExtendRows(ds, new_schema, extra) ==
  [j \in 1..Len(ds.rows) |->
     TupleOf(new_schema, Append(ds.rows[j].values, extra[j]))]

ExtendRowsOk(ds, new_schema, extra) ==
  \A j \in 1..Len(ds.rows) :
    TupleNewOk(new_schema, Append(ds.rows[j].values, extra[j]))

\* Dataset::add_column; ptr is the address Arc::new returns
add_column(ds, column_name, ty, default_value, nullable, ptr) ==
  LET new_schema ==
        SchemaAt(ptr, Append(ds.schema.fields,
                 [name |-> column_name, value_type |-> ty,
                  nullable |-> nullable, is_lazy |-> FALSE]))
      extra == [j \in 1..Len(ds.rows) |-> default_value]
  IN IF \/ has_field(ds.schema.fields, column_name)
        \/ ~is_null(default_value) /\ ~matches_type(default_value, ty)
        \/ ~ExtendRowsOk(ds, new_schema, extra)
     THEN [ok |-> FALSE, ds |-> ds]
     ELSE [ok |-> TRUE,
           ds |-> update_stats([ds EXCEPT !.schema = new_schema,
                                          !.rows = ExtendRows(ds, new_schema, extra)])]

\* Dataset::add_computed_column
add_computed_column(ds, column_name, ty, computed_values, expression, lazy, ptr) ==
  LET new_field == [name |-> column_name, value_type |-> ty,
                    nullable |-> lazy, is_lazy |-> lazy]
      new_schema == SchemaAt(ptr, Append(ds.schema.fields, new_field))
      nulls == [j \in 1..Len(ds.rows) |-> NullV]
  IN IF has_field(ds.schema.fields, column_name) THEN [ok |-> FALSE, ds |-> ds]
     ELSE IF lazy
     THEN IF ~ExtendRowsOk(ds, new_schema, nulls) THEN [ok |-> FALSE, ds |-> ds]
          ELSE [ok |-> TRUE,
                ds |-> update_stats(
                  [ds EXCEPT !.rows = ExtendRows(ds, new_schema, nulls),
                             !.lazy_expressions =
                                (column_name :> expression) @@ ds.lazy_expressions,
                             !.schema = new_schema])]
     ELSE IF \/ Len(computed_values) # Len(ds.rows)
             \/ \E j \in 1..Len(computed_values) :
                  ~matches_type(computed_values[j], ty)
             \/ ~ExtendRowsOk(ds, new_schema, computed_values)
          THEN [ok |-> FALSE, ds |-> ds]
          ELSE [ok |-> TRUE,
                ds |-> update_stats(
                  [ds EXCEPT !.rows = ExtendRows(ds, new_schema, computed_values),
                             !.schema = new_schema])]

\* Dataset::evaluate_lazy_column; NoneV when the registry has no expression
evaluate_lazy_column(ds, column_name, row) ==
  IF column_name \in DOMAIN ds.lazy_expressions
  THEN evaluate_expression(ds.lazy_expressions[column_name], row)
  ELSE NoneV

\* Dataset::get_column: [ok, vals]
get_column(ds, column_name) ==
  LET idx == get_field_index(ds.schema.fields, column_name)
  IN IF idx = 0 THEN [ok |-> FALSE, vals |-> <<>>]
     ELSE IF ds.schema.fields[idx].is_lazy
     THEN IF column_name \notin DOMAIN ds.lazy_expressions
          THEN [ok |-> FALSE, vals |-> <<>>]
          ELSE [ok |-> TRUE,
                vals |-> [j \in 1..Len(ds.rows) |->
                            evaluate_expression(ds.lazy_expressions[column_name],
                                                ds.rows[j])]]
     ELSE [ok |-> TRUE,
           vals |-> [j \in 1..Len(ds.rows) |-> ds.rows[j].values[idx]]]

\* an evaluation loop that writes nothing into the row
MaterializeValuesKept(ds, row) == row.values

\* the values of one row after the evaluation loop of materialize_lazy_columns
MaterializeValues(ds, row) ==
  [j \in 1..Len(row.values) |->
     IF /\ j <= Len(ds.schema.fields)
        /\ ds.schema.fields[j].is_lazy
        /\ ds.schema.fields[j].name \in DOMAIN ds.lazy_expressions
     THEN evaluate_expression(ds.lazy_expressions[ds.schema.fields[j].name], row)
     ELSE row.values[j]]

\* the schema fields with every is_lazy flag cleared
ClearLazy(fields) ==
  [j \in 1..Len(fields) |-> [fields[j] EXCEPT !.is_lazy = FALSE]]

\* Dataset::materialize_lazy_columns
materialize_lazy_columns(ds, ptr) ==
  LET lazy_columns == {ds.schema.fields[j].name :
                         j \in {h \in 1..Len(ds.schema.fields) :
                                  ds.schema.fields[h].is_lazy}}
      new_schema == SchemaAt(ptr, ClearLazy(ds.schema.fields))
  IN IF lazy_columns = {} THEN [ok |-> TRUE, ds |-> ds]
     ELSE IF \E j \in 1..Len(ds.rows) :
               ~TupleNewOk(ds.schema, MaterializeValues(ds, ds.rows[j]))
     THEN [ok |-> FALSE, ds |-> ds]
     ELSE [ok |-> TRUE,
           ds |-> update_stats(
             [ds EXCEPT
                !.rows = [j \in 1..Len(ds.rows) |->
                            TupleOf(ds.schema, MaterializeValues(ds, ds.rows[j]))],
                !.schema = new_schema,
                !.lazy_expressions =
                   [c \in DOMAIN ds.lazy_expressions \ lazy_columns |->
                      ds.lazy_expressions[c]]])]

(***************************************************************************)
(* core/store/dataset_store.rs and the dataset half of DatabaseInstance    *)
(* (engine/db.rs).  An instance is                                         *)
(*   [name, store, names, dataset_store]                                   *)
(* with dataset_store = [next_id, datasets, names].                        *)
(***************************************************************************)
\* DatasetStore::new
DatasetStoreNew == [next_id |-> 0, datasets |-> EmptyFn, names |-> EmptyFn]

\* InMemoryTensorStore::new
TensorStoreNew == [next_id |-> 0, tensors |-> <<>>]

\* DatabaseInstance::new
DatabaseInstanceNew(name) ==
  [name |-> name, store |-> TensorStoreNew, names |-> EmptyFn,
   dataset_store |-> DatasetStoreNew]

\* an insert without the check for a registered name
DatasetStoreInsertUnchecked(store, dataset, name) ==
  [ok |-> TRUE,
   store |-> [store EXCEPT
                !.datasets = (dataset.id :> [dataset EXCEPT !.name = name])
                             @@ store.datasets,
                !.names = (name :> dataset.id) @@ store.names]]

\* DatasetStore::insert with Some(name): [ok, store]
DatasetStoreInsert(store, dataset, name) ==
  IF name \in DOMAIN store.names THEN [ok |-> FALSE, store |-> store]
  ELSE [ok |-> TRUE,
        store |-> [store EXCEPT
                     !.datasets = (dataset.id :> [dataset EXCEPT !.name = name])
                                  @@ store.datasets,
                     !.names = (name :> dataset.id) @@ store.names]]

\* DatabaseInstance::create_dataset: the ID is generated before the insert
\* is attempted, so next_id advances on failure too.  [ok, inst]
create_dataset(inst, name, schema) ==
  LET id == inst.dataset_store.next_id
      store1 == [inst.dataset_store EXCEPT !.next_id = id + 1]
      r == DatasetStoreInsert(store1, DatasetNew(id, schema, name), name)
  IN [ok |-> r.ok, inst |-> [inst EXCEPT !.dataset_store = r.store]]

\* DatasetStore::get_by_name / DatabaseInstance::get_dataset succeed
has_dataset(inst, name) ==
  /\ name \in DOMAIN inst.dataset_store.names
  /\ inst.dataset_store.names[name] \in DOMAIN inst.dataset_store.datasets

\* DatabaseInstance::get_dataset
get_dataset(inst, name) ==
  inst.dataset_store.datasets[inst.dataset_store.names[name]]

\* the effect of writing through DatabaseInstance::get_dataset_mut
put_dataset(inst, name, ds) ==
  [inst EXCEPT !.dataset_store.datasets[inst.dataset_store.names[name]] = ds]

(***************************************************************************)
(* Addresses of Arc<Schema> allocations                                    *)
(***************************************************************************)
DatasetPtrs(ds) ==
  {ds.schema.ptr} \cup {ds.rows[j].schema.ptr : j \in 1..Len(ds.rows)}

InstancePtrs(inst) ==
  UNION {DatasetPtrs(inst.dataset_store.datasets[id]) :
           id \in DOMAIN inst.dataset_store.datasets}

\* the addresses held by live schemas
UsedPtrs(dbs) == UNION {InstancePtrs(dbs[d]) : d \in DOMAIN dbs}

\* Arc::new returns an address no live allocation has
Fresh(used) == CHOOSE p \in 0..Cardinality(used) : p \notin used

(***************************************************************************)
(* query/logical.rs: LogicalPlan.  Every node but Scan has one input, so a *)
(* plan is the Scan [dataset_name, schema] and the list of the nodes above *)
(* it, innermost first.  A node is [k, predicate, columns, n, ascending];   *)
(* a Sort node keeps its column in columns.                                *)
(***************************************************************************)
FilterNode(col, op, v) ==
  [k |-> "Filter", predicate |-> BinE(LeafCol(col), op, LeafLit(v)),
   columns |-> <<>>, n |-> 0, ascending |-> FALSE]
ProjectNode(cols) ==
  [k |-> "Project", predicate |-> LitE(NullV), columns |-> cols, n |-> 0,
   ascending |-> FALSE]
LimitNode(n) ==
  [k |-> "Limit", predicate |-> LitE(NullV), columns |-> <<>>, n |-> n,
   ascending |-> FALSE]
SortNode(col, ascending) ==
  [k |-> "Sort", predicate |-> LitE(NullV), columns |-> <<col>>, n |-> 0,
   ascending |-> ascending]

LogicalScan(dataset_name, schema, nodes) ==
  [dataset_name |-> dataset_name, schema |-> schema, nodes |-> nodes]

\* the fields of the names a Project node selects that the input has
RECURSIVE KnownFields(_, _)
KnownFields(fields, columns) ==
  IF columns = <<>> THEN <<>>
  ELSE LET i == get_field_index(fields, Head(columns))
           rest == KnownFields(fields, Tail(columns))
       IN IF i = 0 THEN rest ELSE <<fields[i]>> \o rest

\* a schema function that passes the Scan's fields through every node
LogicalSchemaOfScan(plan, n) == plan.schema.fields

\* LogicalPlan::schema of the Scan and its first n nodes: the fields
RECURSIVE LogicalSchema(_, _)
LogicalSchema(plan, n) ==
  IF n = 0 THEN plan.schema.fields
  ELSE IF plan.nodes[n].k = "Project"
  THEN KnownFields(LogicalSchema(plan, n - 1), plan.nodes[n].columns)
  ELSE LogicalSchema(plan, n - 1)

(***************************************************************************)
(* query/physical.rs: operators                                            *)
(***************************************************************************)
\* evaluate_lazy_columns_in_row: [ok, row]
evaluate_lazy_columns_in_row(ds, row) ==
  LET vals == [j \in 1..Len(row.values) |->
                 IF j <= Len(ds.schema.fields) /\ ds.schema.fields[j].is_lazy
                 THEN LET e == evaluate_lazy_column(ds, ds.schema.fields[j].name, row)
                      IN IF e = NoneV THEN row.values[j] ELSE e
                 ELSE row.values[j]]
  IN [ok |-> TupleNewOk(ds.schema, vals), row |-> TupleOf(ds.schema, vals)]

\* the rows of a list evaluated one by one: [ok, rows]
EvaluateRows(ds, rows) ==
  LET rs == [j \in 1..Len(rows) |-> evaluate_lazy_columns_in_row(ds, rows[j])]
  IN [ok |-> \A j \in 1..Len(rows) : rs[j].ok,
      rows |-> [j \in 1..Len(rows) |-> rs[j].row]]

\* SeqScanExec::execute
SeqScanExec(inst, dataset_name) ==
  IF ~has_dataset(inst, dataset_name) THEN [ok |-> FALSE, rows |-> <<>>]
  ELSE LET ds == get_dataset(inst, dataset_name) IN EvaluateRows(ds, ds.rows)

\* IndexScanExec::execute
IndexScanExec(inst, dataset_name, column, v) ==
  IF ~has_dataset(inst, dataset_name) THEN [ok |-> FALSE, rows |-> <<>>]
  ELSE LET ds == get_dataset(inst, dataset_name)
       IN IF column \notin DOMAIN ds.indices THEN [ok |-> FALSE, rows |-> <<>>]
          ELSE IF ~IndexLookup(ds.indices[column], v).ok
          THEN [ok |-> FALSE, rows |-> <<>>]
          ELSE EvaluateRows(ds,
                 get_rows_by_ids(ds, IndexLookup(ds.indices[column], v).ids))

\* VectorSearchExec::execute
VectorSearchExec(inst, dataset_name, column, query, k) ==
  IF ~has_dataset(inst, dataset_name) THEN [ok |-> FALSE, rows |-> <<>>]
  ELSE LET ds == get_dataset(inst, dataset_name)
       IN IF column \notin DOMAIN ds.indices THEN [ok |-> FALSE, rows |-> <<>>]
          ELSE IF ds.indices[column].kind # "Vector"
          THEN [ok |-> FALSE, rows |-> <<>>]
          ELSE IF ~VectorIndexSearch(ds.indices[column], query, k).ok
          THEN [ok |-> FALSE, rows |-> <<>>]
          ELSE EvaluateRows(ds,
                 get_rows_by_ids(ds,
                   VectorIndexSearch(ds.indices[column], query, k).ids))

\* eval_value of the planner: NoneV for anything but a column or a literal
eval_value(leaf, row) ==
  IF leaf.k = "Column" THEN TupleGet(row, leaf.name) ELSE leaf.val

\* evaluate_expr of the planner: the predicate closure of FilterExec
evaluate_expr(expr, row) ==
  IF expr.k # "Binary" THEN FALSE
  ELSE LET l == eval_value(expr.left, row)
           r == eval_value(expr.right, row)
       IN IF l = NoneV \/ r = NoneV THEN FALSE
          ELSE LET ord == compare(l, r)
               IN CASE expr.op = "=" -> ord = "Equal"
                    [] expr.op = "!=" -> ord # "None" /\ ord # "Equal"
                    [] expr.op = ">" -> ord = "Greater"
                    [] expr.op = "<" -> ord = "Less"
                    [] OTHER -> FALSE

\* FilterExec::execute on the rows of its input
FilterExec(rows, predicate) ==
  SelectSeq(rows, LAMBDA row : evaluate_expr(predicate, row))

\* ProjectionExec::execute on the rows of its input: [ok, rows]
ProjectionExec(rows, output_schema, column_indices) ==
  LET vals == [j \in 1..Len(rows) |->
                 [c \in 1..Len(column_indices) |->
                    rows[j].values[column_indices[c]]]]
  IN [ok |-> \A j \in 1..Len(rows) : TupleNewOk(output_schema, vals[j]),
      rows |-> [j \in 1..Len(rows) |-> TupleOf(output_schema, vals[j])]]

\* LimitExec::execute on the rows of its input
LimitExec(rows, n) == SubSeq(rows, 1, IF n < Len(rows) THEN n ELSE Len(rows))

\* the comparator of SortExec: b goes before a
SortsBefore(b, a, col_idx, ascending) ==
  LET ord == compare(b.values[col_idx], a.values[col_idx])
  IN IF ascending THEN ord = "Less" ELSE ord = "Greater"

\* the stable sort_by of SortExec: each row goes behind the rows that do
\* not sort after it
RECURSIVE SortRows(_, _, _)
SortRows(rows, col_idx, ascending) ==
  IF rows = <<>> THEN <<>>
  ELSE LET front == SortRows(SubSeq(rows, 1, Len(rows) - 1), col_idx, ascending)
           row == rows[Len(rows)]
           keep == {j \in 0..Len(front) :
                      \A i \in 1..j : ~SortsBefore(row, front[i], col_idx, ascending)}
           at == CHOOSE j \in keep : \A i \in keep : i <= j
       IN SubSeq(front, 1, at) \o <<row>> \o SubSeq(front, at + 1, Len(front))

\* SortExec::execute on the rows of its input: [ok, rows]
SortExec(rows, schema, column, ascending) ==
  IF get_field_index(schema.fields, column) = 0
  THEN [ok |-> FALSE, rows |-> <<>>]
  ELSE [ok |-> TRUE,
        rows |-> SortRows(rows, get_field_index(schema.fields, column), ascending)]

(***************************************************************************)
(* query/planner.rs.  A physical plan is [ok, leaf, pops, schema, used]:   *)
(* the access method, the operators above it innermost first, the Arc the  *)
(* plan reports as its schema, and the addresses live once it is built.    *)
(***************************************************************************)
PhysLeaf(k, dataset_name, column, v) ==
  [k |-> k, dataset_name |-> dataset_name, column |-> column, value |-> v]

PhysOp(k, predicate, output_schema, column_indices, n) ==
  [k |-> k, predicate |-> predicate, output_schema |-> output_schema,
   column_indices |-> column_indices, n |-> n, column |-> "",
   ascending |-> FALSE]

PhysSort(output_schema, column, ascending) ==
  [k |-> "Sort", predicate |-> LitE(NullV), output_schema |-> output_schema,
   column_indices |-> <<>>, n |-> 0, column |-> column,
   ascending |-> ascending]

\* an optimisation that takes whatever index the column has
try_optimize_filter_any_index(inst, dataset_name, predicate) ==
  /\ predicate.k = "Binary"
  /\ predicate.op = "="
  /\ predicate.left.k = "Column"
  /\ predicate.right.k = "Literal"
  /\ has_dataset(inst, dataset_name)
  /\ predicate.left.name \in DOMAIN get_dataset(inst, dataset_name).indices

\* Planner::try_optimize_filter finds a hash index for the predicate
try_optimize_filter(inst, dataset_name, predicate) ==
  /\ predicate.k = "Binary"
  /\ predicate.op = "="
  /\ predicate.left.k = "Column"
  /\ predicate.right.k = "Literal"
  /\ has_dataset(inst, dataset_name)
  /\ predicate.left.name \in DOMAIN get_dataset(inst, dataset_name).indices
  /\ get_dataset(inst, dataset_name).indices[predicate.left.name].kind = "Hash"

\* the field positions a Project node selects; 0 where the column is missing
ProjectIndices(fields, columns) ==
  [c \in 1..Len(columns) |-> get_field_index(fields, columns[c])]

\* Planner::create_physical_plan for the Scan and its first n nodes
RECURSIVE PlanNodes(_, _, _, _)
PlanNodes(inst, plan, n, used) ==
  IF n = 0
  THEN [ok |-> TRUE,
        leaf |-> PhysLeaf("SeqScan", plan.dataset_name, "", NullV),
        pops |-> <<>>, schema |-> plan.schema, used |-> used]
  ELSE LET prev == PlanNodes(inst, plan, n - 1, used)
           node == plan.nodes[n]
           ptr == Fresh(prev.used)
       IN IF ~prev.ok THEN prev
          ELSE IF node.k = "Filter"
          THEN IF n = 1 /\ try_optimize_filter(inst, plan.dataset_name, node.predicate)
               THEN [ok |-> TRUE,
                     leaf |-> PhysLeaf("IndexScan", plan.dataset_name,
                                       node.predicate.left.name,
                                       node.predicate.right.val),
                     pops |-> <<>>,
                     schema |-> SchemaAt(ptr, plan.schema.fields),
                     used |-> prev.used \cup {ptr}]
               ELSE [prev EXCEPT !.pops =
                       Append(prev.pops,
                              PhysOp("Filter", node.predicate, prev.schema, <<>>, 0))]
          ELSE IF node.k = "Project"
          THEN LET idx == ProjectIndices(prev.schema.fields, node.columns)
                   out == SchemaAt(ptr, [c \in 1..Len(idx) |->
                                           prev.schema.fields[idx[c]]])
               IN IF \E c \in 1..Len(idx) : idx[c] = 0
                  THEN [prev EXCEPT !.ok = FALSE]
                  ELSE [prev EXCEPT
                          !.pops = Append(prev.pops,
                                     PhysOp("Projection", LitE(NullV), out, idx, 0)),
                          !.schema = out,
                          !.used = prev.used \cup {ptr}]
          ELSE IF node.k = "Sort"
          THEN [prev EXCEPT !.pops =
                  Append(prev.pops,
                         PhysSort(prev.schema, node.columns[1], node.ascending))]
          ELSE [prev EXCEPT !.pops =
                  Append(prev.pops,
                         PhysOp("Limit", LitE(NullV), prev.schema, <<>>, node.n))]

\* Planner::create_physical_plan
create_physical_plan(inst, plan, used) ==
  PlanNodes(inst, plan, Len(plan.nodes), used)

\* PhysicalPlan::execute of the access method and its first n operators
RECURSIVE ExecuteOps(_, _, _)
ExecuteOps(inst, pp, n) ==
  IF n = 0
  THEN IF pp.leaf.k = "IndexScan"
       THEN IndexScanExec(inst, pp.leaf.dataset_name, pp.leaf.column, pp.leaf.value)
       ELSE SeqScanExec(inst, pp.leaf.dataset_name)
  ELSE LET input == ExecuteOps(inst, pp, n - 1)
           op == pp.pops[n]
       IN IF ~input.ok THEN input
          ELSE IF op.k = "Filter"
          THEN [ok |-> TRUE, rows |-> FilterExec(input.rows, op.predicate)]
          ELSE IF op.k = "Projection"
          THEN ProjectionExec(input.rows, op.output_schema, op.column_indices)
          ELSE IF op.k = "Sort"
          THEN SortExec(input.rows, op.output_schema, op.column, op.ascending)
          ELSE [ok |-> TRUE, rows |-> LimitExec(input.rows, op.n)]

\* PhysicalPlan::execute
Execute(inst, pp) == ExecuteOps(inst, pp, Len(pp.pops))

\* Planner::create_physical_plan for VectorSearch over a Scan, executed: the
\* plan reports the Arc of the Scan as its schema
ExecuteVectorSearch(inst, source_name, column, query, k) ==
  VectorSearchExec(inst, source_name, column, query, k)

(***************************************************************************)
(* engine/db.rs: the dataset methods of DatabaseInstance, each [ok, inst]  *)
(***************************************************************************)
\* writes the result of a Dataset method back through get_dataset_mut
Store(inst, name, r) ==
  [ok |-> r.ok, inst |-> IF r.ok THEN put_dataset(inst, name, r.ds) ELSE inst]

Failed(inst) == [ok |-> FALSE, inst |-> inst]

\* the result of a Dataset method that may fail half-way, written back
StoreAlways(inst, name, r) ==
  [ok |-> r.ok, inst |-> put_dataset(inst, name, r.ds)]

\* DatabaseInstance::insert_row
insert_row(inst, dataset_name, tuple, order) ==
  IF ~has_dataset(inst, dataset_name) THEN Failed(inst)
  ELSE StoreAlways(inst, dataset_name,
                   add_row(get_dataset(inst, dataset_name), tuple, order))

\* DatabaseInstance::alter_dataset_add_column
alter_dataset_add_column(inst, dataset_name, column_name, ty, default_value, nullable, ptr) ==
  IF ~has_dataset(inst, dataset_name) THEN Failed(inst)
  ELSE Store(inst, dataset_name,
             add_column(get_dataset(inst, dataset_name), column_name, ty,
                        default_value, nullable, ptr))

\* DatabaseInstance::alter_dataset_add_computed_column
alter_dataset_add_computed_column(inst, dataset_name, column_name, ty, computed_values, expression, lazy, ptr) ==
  IF ~has_dataset(inst, dataset_name) THEN Failed(inst)
  ELSE Store(inst, dataset_name,
             add_computed_column(get_dataset(inst, dataset_name), column_name,
                                 ty, computed_values, expression, lazy, ptr))

\* DatabaseInstance::materialize_lazy_columns
db_materialize_lazy_columns(inst, dataset_name, ptr) ==
  IF ~has_dataset(inst, dataset_name) THEN Failed(inst)
  ELSE Store(inst, dataset_name,
             materialize_lazy_columns(get_dataset(inst, dataset_name), ptr))

\* DatabaseInstance::create_index
db_create_index(inst, dataset_name, column_name) ==
  IF ~has_dataset(inst, dataset_name) THEN Failed(inst)
  ELSE Store(inst, dataset_name,
             create_index(get_dataset(inst, dataset_name), column_name,
                          HashIndexNew))

\* DatabaseInstance::create_vector_index
create_vector_index(inst, dataset_name, column_name) ==
  IF ~has_dataset(inst, dataset_name) THEN Failed(inst)
  ELSE Store(inst, dataset_name,
             create_index(get_dataset(inst, dataset_name), column_name,
                          VectorIndexNew))

(***************************************************************************)
(* dsl/handlers: the statements, on the active instance.  Each is          *)
(* [ok, inst]; used is the set of live Arc<Schema> addresses.              *)
(***************************************************************************)
\* handle_dataset_creation
handle_dataset_creation(inst, name, fields, used) ==
  create_dataset(inst, name, SchemaAt(Fresh(used), fields))

\* handle_insert, with parse_tuple_values' count check
handle_insert(inst, dataset_name, values, order) ==
  IF ~has_dataset(inst, dataset_name) THEN Failed(inst)
  ELSE LET schema == get_dataset(inst, dataset_name).schema
       IN IF Len(values) # Len(schema.fields) THEN Failed(inst)
          ELSE IF ~TupleNewOk(schema, values) THEN Failed(inst)
          ELSE insert_row(inst, dataset_name, TupleOf(schema, values), order)

\* the value handle_add_column uses when the statement has no DEFAULT
TypeDefault(ty, nullable) ==
  IF nullable THEN NullV
  ELSE CASE ty.k = "Int" -> IntV(0)
         [] ty.k = "Float" -> FloatV(0)
         [] ty.k = "String" -> StrV("")
         [] ty.k = "Bool" -> BoolV(FALSE)
         [] ty.k = "Vector" -> VecV([j \in 1..ty.d |-> 0])
         [] OTHER -> NullV

\* handle_add_column, regular column; default_val is NoneV without DEFAULT
handle_add_column(inst, dataset_name, column_name, ty, default_val, nullable, used) ==
  alter_dataset_add_column(inst, dataset_name, column_name, ty,
     IF default_val = NoneV THEN TypeDefault(ty, nullable) ELSE default_val,
     nullable, Fresh(used))

\* handle_add_column, computed column
handle_add_computed_column(inst, dataset_name, column_name, expr, is_lazy, used) ==
  IF ~has_dataset(inst, dataset_name) THEN Failed(inst)
  ELSE LET dataset == get_dataset(inst, dataset_name)
           computed_values ==
             [j \in 1..Len(dataset.rows) |->
                evaluate_expression(expr, dataset.rows[j])]
       IN IF dataset.rows = <<>> THEN Failed(inst)
          ELSE IF is_lazy
          THEN alter_dataset_add_computed_column(inst, dataset_name, column_name,
                 value_type(evaluate_expression(expr, dataset.rows[1])),
                 <<>>, expr, TRUE, Fresh(used))
          ELSE alter_dataset_add_computed_column(inst, dataset_name, column_name,
                 value_type(computed_values[1]),
                 computed_values, expr, FALSE, Fresh(used))

\* handle_materialize
handle_materialize(inst, dataset_name, used) ==
  db_materialize_lazy_columns(inst, dataset_name, Fresh(used))

\* handle_create_index
handle_create_index(inst, dataset_name, column_name, is_vector) ==
  IF is_vector THEN create_vector_index(inst, dataset_name, column_name)
  ELSE db_create_index(inst, dataset_name, column_name)

\* build_dataset_query_plan succeeds and gives this plan
build_dataset_query_plan(inst, source_name, nodes) ==
  LogicalScan(source_name, get_dataset(inst, source_name).schema, nodes)

\* handle_search: [ok, inst, panic].  The reply re-executes the plan and
\* unwraps the result, after the target has been written.
handle_search(inst, target_name, source_name, query, column, k) ==
  IF ~has_dataset(inst, source_name)
  THEN [ok |-> FALSE, inst |-> inst, panic |-> FALSE]
  ELSE LET result_schema == get_dataset(inst, source_name).schema
           result == ExecuteVectorSearch(inst, source_name, column, query, k)
           created == create_dataset(inst, target_name, result_schema)
           base == IF has_dataset(inst, target_name) THEN inst ELSE created.inst
           ds == get_dataset(base, target_name)
           written == put_dataset(base, target_name,
                        update_stats([ds EXCEPT !.rows = result.rows]))
       IN IF ~result.ok THEN [ok |-> FALSE, inst |-> inst, panic |-> FALSE]
          ELSE IF /\ has_dataset(inst, target_name)
                  /\ get_dataset(inst, target_name).schema.fields
                       # result_schema.fields
          THEN [ok |-> FALSE, inst |-> inst, panic |-> FALSE]
          ELSE [ok |-> TRUE, inst |-> written,
                panic |-> ~ExecuteVectorSearch(written, source_name, column,
                                               query, k).ok]

\* handle_dataset_query
handle_dataset_query(inst, target_name, source_name, nodes, used) ==
  IF ~has_dataset(inst, source_name) THEN Failed(inst)
  ELSE LET physical_plan ==
             create_physical_plan(inst,
               build_dataset_query_plan(inst, source_name, nodes), used)
           result == Execute(inst, physical_plan)
           created == create_dataset(inst, target_name, physical_plan.schema)
           target_ds == get_dataset(created.inst, target_name)
       IN IF ~physical_plan.ok THEN Failed(inst)
          ELSE IF ~result.ok THEN Failed(inst)
          ELSE IF ~created.ok THEN created
          ELSE [ok |-> TRUE,
                inst |-> put_dataset(created.inst, target_name,
                           update_stats([target_ds EXCEPT !.rows = result.rows]))]

(***************************************************************************)
(* core/tensor.rs and engine/kernels.rs.  A tensor is [id, shape, data],   *)
(* shape a sequence of dimensions and data row-major; its elements are     *)
(* taken from the integers, the part of f32 the inputs below use.  A       *)
(* kernel returns [ok, panic, tensor]: Ok(tensor), Err(_) or a panic.      *)
(***************************************************************************)
RECURSIVE num_elements(_)
\* Shape::num_elements
num_elements(dims) ==
  IF Len(dims) = 0 THEN 1 ELSE Head(dims) * num_elements(Tail(dims))

NoTensor == [id |-> 0, shape |-> <<>>, data |-> <<>>]

KErr == [ok |-> FALSE, panic |-> FALSE, tensor |-> NoTensor]

KPanic == [ok |-> FALSE, panic |-> TRUE, tensor |-> NoTensor]

\* Tensor::new
TensorNew(id, shape, data) ==
  IF Len(data) # num_elements(shape) THEN KErr
  ELSE [ok |-> TRUE, panic |-> FALSE,
        tensor |-> [id |-> id, shape |-> shape, data |-> data]]

\* the closure a kernel applies to a pair of elements: [ok, v].  A quotient
\* is rounded to the grid of the model's numbers as f32 rounds to its own.
ElementOp(op, x, y) ==
  CASE op = "+" -> [ok |-> TRUE, v |-> x + y]
    [] op = "-" -> [ok |-> TRUE, v |-> x - y]
    [] op = "*" -> [ok |-> TRUE, v |-> x * y]
    [] op = "/" -> IF y = 0 THEN [ok |-> FALSE, v |-> 0]
                   ELSE [ok |-> TRUE, v |-> TruncDiv(x, y)]

\* the padded operands of elementwise_binary_op and the result they give
Elementwise(op, xs, ys, shape, new_id) ==
  IF \E j \in 1..Len(xs) : ~ElementOp(op, xs[j], ys[j]).ok THEN KErr
  ELSE TensorNew(new_id, shape,
                 [j \in 1..Len(xs) |-> ElementOp(op, xs[j], ys[j]).v])

Max2(m, n) == IF m > n THEN m ELSE n

\* elementwise_binary_op
elementwise_binary_op(a, b, new_id, neutral_a, neutral_b, op) ==
  LET len == Max2(Len(a.data), Len(b.data))
  IN CASE Len(a.shape) = 0 ->
            Elementwise(op, [j \in 1..Len(b.data) |-> a.data[1]], b.data,
                        b.shape, new_id)
       [] Len(a.shape) # 0 /\ Len(b.shape) = 0 ->
            Elementwise(op, a.data, [j \in 1..Len(a.data) |-> b.data[1]],
                        a.shape, new_id)
       [] Len(a.shape) = 1 /\ Len(b.shape) = 1 ->
            Elementwise(op,
              [j \in 1..len |-> IF j <= Len(a.data) THEN a.data[j] ELSE neutral_a],
              [j \in 1..len |-> IF j <= Len(b.data) THEN b.data[j] ELSE neutral_b],
              <<len>>, new_id)
       [] OTHER -> KErr

\* add_relaxed, sub_relaxed, multiply_relaxed, divide_relaxed
relaxed(op, a, b, new_id) ==
  IF op \in {"+", "-"} THEN elementwise_binary_op(a, b, new_id, 0, 0, op)
  ELSE elementwise_binary_op(a, b, new_id, 1, 1, op)

\* add, sub, multiply, divide: ensure_same_shape, then element by element
strict(op, a, b, new_id) ==
  IF a.shape # b.shape THEN KErr
  ELSE Elementwise(op, a.data, b.data, a.shape, new_id)

\* scalar_mul
scalar_mul(a, s, new_id) ==
  TensorNew(new_id, a.shape, [j \in 1..Len(a.data) |-> s * a.data[j]])

\* dot_1d: [ok, v]
dot_1d(a, b) ==
  IF Len(a.shape) # 1 \/ Len(b.shape) # 1 \/ a.shape # b.shape
  THEN [ok |-> FALSE, v |-> 0]
  ELSE [ok |-> TRUE, v |-> Dot(a.data, b.data)]

\* matmul
matmul(a, b, new_id) ==
  IF Len(a.shape) # 2 \/ Len(b.shape) # 2 THEN KErr
  ELSE LET m == a.shape[1]
           n == a.shape[2]
           p == b.shape[2]
       IN IF n # b.shape[1] THEN KErr
          ELSE TensorNew(new_id, <<m, p>>,
                 [c \in 1..(m * p) |->
                    LET i == (c - 1) \div p
                        j == (c - 1) % p
                    IN SumSeq([k \in 1..n |->
                                 a.data[i * n + k] * b.data[(k - 1) * p + j + 1]])])

\* transpose
transpose(a, new_id) ==
  IF Len(a.shape) # 2 THEN KErr
  ELSE LET m == a.shape[1]
           n == a.shape[2]
       IN TensorNew(new_id, <<n, m>>,
            [c \in 1..(m * n) |->
               a.data[((c - 1) % m) * n + ((c - 1) \div m) + 1]])

\* reshape
reshape(a, new_shape, new_id) ==
  IF num_elements(a.shape) # num_elements(new_shape) THEN KErr
  ELSE TensorNew(new_id, new_shape, a.data)

\* flatten
flatten(a, new_id) == TensorNew(new_id, <<num_elements(a.shape)>>, a.data)

\* stack, on axis 0 only
stack(tensors, axis, new_id) ==
  IF Len(tensors) = 0 THEN KErr
  ELSE IF \E j \in 2..Len(tensors) : tensors[j].shape # tensors[1].shape
  THEN KErr
  ELSE IF axis # 0 THEN KErr
  ELSE LET n == Len(tensors[1].data)
       IN TensorNew(new_id, <<Len(tensors)>> \o tensors[1].shape,
            [c \in 1..(Len(tensors) * n) |->
               tensors[((c - 1) \div n) + 1].data[((c - 1) % n) + 1]])


\* the elements a slicing loop reads, rows r0..r0+nr-1 by columns
\* c0..c0+nc-1 of a matrix with cols columns: an element past the end of
\* a.data is an out-of-bounds index, which panics
Gather(a, cols, r0, nr, c0, nc, shape, new_id) ==
  LET at(c) == (r0 + ((c - 1) \div nc)) * cols + c0 + ((c - 1) % nc)
  IN IF \E c \in 1..(nr * nc) : at(c) >= Len(a.data) THEN KPanic
     ELSE TensorNew(new_id, shape, [c \in 1..(nr * nc) |-> a.data[at(c) + 1]])

\* slice
slice(a, dim, start, end, new_id) ==
  IF dim >= Len(a.shape) THEN KErr
  ELSE IF start >= end THEN KErr
  ELSE IF end > a.shape[dim + 1] THEN KErr
  ELSE CASE Len(a.shape) = 1 ->
              Gather(a, 1, start, end - start, 0, 1, <<end - start>>, new_id)
         [] Len(a.shape) = 2 /\ dim = 0 ->
              Gather(a, a.shape[2], start, end - start, 0, a.shape[2],
                     <<end - start, a.shape[2]>>, new_id)
         [] Len(a.shape) = 2 /\ dim # 0 ->
              Gather(a, a.shape[2], 0, a.shape[1], start, end - start,
                     <<a.shape[1], end - start>>, new_id)
         [] OTHER -> KErr

\* index: [ok, v]
index(a, indices) ==
  IF Len(indices) # Len(a.shape) THEN [ok |-> FALSE, v |-> 0]
  ELSE IF \E j \in 1..Len(indices) : indices[j] >= a.shape[j]
  THEN [ok |-> FALSE, v |-> 0]
  ELSE [ok |-> TRUE,
        v |-> a.data[1 + (IF Len(indices) = 0 THEN 0
                          ELSE IF Len(indices) = 1 THEN indices[1]
                          ELSE indices[1] * a.shape[2] + indices[2])]]

\* index_to_scalar
index_to_scalar(a, indices, new_id) ==
  IF ~index(a, indices).ok THEN KErr
  ELSE TensorNew(new_id, <<>>, <<index(a, indices).v>>)

\* SliceSpec::Index, SliceSpec::Range, SliceSpec::All
SpecIndex(i) == [k |-> "Index", a |-> i, b |-> 0]
SpecRange(start, end) == [k |-> "Range", a |-> start, b |-> end]
SpecAll == [k |-> "All", a |-> 0, b |-> 0]

\* the submatrix arm of slice_multi.  row_end - row_start and col_end -
\* col_start are usize subtractions: with overflow checks a reversed range
\* panics; without them the difference wraps (a negative number stands for
\* the wrapped one), Vec::with_capacity panics on a wrapped capacity that
\* is not zero, and an empty result goes to Tensor::new.
Submatrix(a, rows, cols, rs, re, cs, ce, new_id, overflow_checks) ==
  IF re >= rs /\ ce >= cs
  THEN Gather(a, cols, rs, re - rs, cs, ce - cs, <<re - rs, ce - cs>>, new_id)
  ELSE IF overflow_checks THEN KPanic
  ELSE IF (re - rs) * (ce - cs) < 0 THEN KPanic
  ELSE IF (re - rs) * (ce - cs) # 0 THEN KErr
  ELSE [ok |-> TRUE, panic |-> FALSE,
        tensor |-> [id |-> new_id, shape |-> <<re - rs, ce - cs>>,
                    data |-> <<>>]]

\* slice_multi
slice_multi(a, specs, new_id, overflow_checks) ==
  IF Len(specs) # Len(a.shape) THEN KErr
  ELSE IF Len(a.shape) = 1
  THEN CASE specs[1].k = "Index" -> index_to_scalar(a, <<specs[1].a>>, new_id)
         [] specs[1].k = "Range" -> slice(a, 0, specs[1].a, specs[1].b, new_id)
         [] specs[1].k = "All" -> [ok |-> TRUE, panic |-> FALSE, tensor |-> a]
  ELSE IF Len(a.shape) = 2
  THEN LET rows == a.shape[1]
           cols == a.shape[2]
           r == specs[1]
           c == specs[2]
       IN CASE r.k = "Index" /\ c.k = "Index" ->
                 index_to_scalar(a, <<r.a, c.a>>, new_id)
            [] r.k = "Index" /\ c.k = "All" ->
                 Gather(a, cols, r.a, 1, 0, cols, <<cols>>, new_id)
            [] r.k = "All" /\ c.k = "Index" ->
                 Gather(a, cols, 0, rows, c.a, 1, <<rows>>, new_id)
            [] r.k = "Range" /\ c.k = "All" -> slice(a, 0, r.a, r.b, new_id)
            [] r.k = "All" /\ c.k = "Range" -> slice(a, 1, c.a, c.b, new_id)
            [] r.k = "Range" /\ c.k = "Range" ->
                 Submatrix(a, rows, cols, r.a, r.b, c.a, c.b, new_id,
                           overflow_checks)
            [] r.k = "All" /\ c.k = "All" ->
                 [ok |-> TRUE, panic |-> FALSE, tensor |-> a]
            [] r.k = "Index" /\ c.k = "Range" ->
                 IF c.b < c.a THEN KPanic
                 ELSE Gather(a, cols, r.a, 1, c.a, c.b - c.a, <<c.b - c.a>>,
                             new_id)
            [] r.k = "Range" /\ c.k = "Index" ->
                 IF r.b < r.a THEN KPanic
                 ELSE Gather(a, cols, r.a, r.b - r.a, c.a, 1, <<r.b - r.a>>,
                             new_id)
  ELSE KErr

(***************************************************************************)
(* engine/db.rs: the tensor methods of DatabaseInstance, each               *)
(* [ok, panic, inst].  A method takes its ID from gen_id_internal before    *)
(* it calls the kernel, so a failed call leaves next_id advanced.           *)
(***************************************************************************)
\* InMemoryTensorStore::gen_id_internal: the store after the call; the ID
\* handed out is the next_id before it
gen_id_internal(store) == [store EXCEPT !.next_id = store.next_id + 1]

\* InMemoryTensorStore::insert_existing_tensor: [ok, store]
insert_existing_tensor(store, tensor) ==
  IF Len(tensor.data) # num_elements(tensor.shape)
  THEN [ok |-> FALSE, store |-> store]
  ELSE [ok |-> TRUE,
        store |-> [store EXCEPT !.tensors = Append(store.tensors, tensor)]]

\* InMemoryTensorStore::get: the first tensor of the list with the ID
StoreGet(store, id) ==
  store.tensors[CHOOSE j \in 1..Len(store.tensors) :
                  /\ store.tensors[j].id = id
                  /\ \A h \in 1..(j - 1) : store.tensors[h].id # id]

\* DatabaseInstance::get_with_kind succeeds
has_tensor(inst, name) == name \in DOMAIN inst.names

\* DatabaseInstance::get_with_kind: [tensor, kind]
get_with_kind(inst, name) ==
  [tensor |-> StoreGet(inst.store, inst.names[name].id),
   kind |-> inst.names[name].kind]

TFailed(inst) == [ok |-> FALSE, panic |-> FALSE, inst |-> inst]

\* the end every eval_* method shares: the kernel's result r, computed
\* after gen_id_internal, goes through insert_existing_tensor and the output
\* name is bound to it with the kind out_kind
BindResult(inst, output_name, r, out_kind) ==
  LET store1 == gen_id_internal(inst.store)
      ins == insert_existing_tensor(store1, r.tensor)
  IN IF r.panic THEN [ok |-> FALSE, panic |-> TRUE, inst |-> inst]
     ELSE IF ~r.ok \/ ~ins.ok THEN TFailed([inst EXCEPT !.store = store1])
     ELSE [ok |-> TRUE, panic |-> FALSE,
           inst |-> [inst EXCEPT
                       !.store = ins.store,
                       !.names = (output_name :> [id |-> r.tensor.id,
                                                  kind |-> out_kind])
                                 @@ inst.names]]

\* the kind eval_binary, eval_matmul and eval_stack give their output
OutKind(kinds) == IF "Strict" \in kinds THEN "Strict" ELSE "Normal"

\* the kind an operation that forgets its right operand would give
OutKindOfFirst(kind_a, kind_b) == kind_a

\* out_kind of eval_binary and eval_matmul
out_kind(kind_a, kind_b) == OutKind({kind_a, kind_b})

\* BinaryOp::Correlate: dot_1d into a rank-0 tensor
Correlate(a, b, new_id) ==
  IF ~dot_1d(a, b).ok THEN KErr
  ELSE TensorNew(new_id, <<>>, <<dot_1d(a, b).v>>)

\* the kernels of an eval_binary that applies the relaxed rules whatever the kind
BinaryKernelRelaxed(op, kind, a, b, new_id) ==
  IF op \in {"+", "-", "*", "/"} THEN relaxed(op, a, b, new_id)
  ELSE Correlate(a, b, new_id)

\* the kernel eval_binary picks for the operator and the output kind
BinaryKernel(op, kind, a, b, new_id) ==
  IF op \in {"+", "-", "*", "/"}
  THEN IF kind = "Strict" THEN strict(op, a, b, new_id)
       ELSE relaxed(op, a, b, new_id)
  ELSE Correlate(a, b, new_id)

\* DatabaseInstance::eval_unary, op Scale(s), Transpose or Flatten
eval_unary(inst, output_name, input_name, op, s) ==
  IF ~has_tensor(inst, input_name) THEN TFailed(inst)
  ELSE LET src == get_with_kind(inst, input_name)
           new_id == inst.store.next_id
       IN BindResult(inst, output_name,
            CASE op = "Scale" -> scalar_mul(src.tensor, s, new_id)
              [] op = "Transpose" -> transpose(src.tensor, new_id)
              [] op = "Flatten" -> flatten(src.tensor, new_id),
            src.kind)

\* DatabaseInstance::eval_binary, op + - * / or Correlate
eval_binary(inst, output_name, left_name, right_name, op) ==
  IF ~has_tensor(inst, left_name) \/ ~has_tensor(inst, right_name)
  THEN TFailed(inst)
  ELSE LET a == get_with_kind(inst, left_name)
           b == get_with_kind(inst, right_name)
           kind == out_kind(a.kind, b.kind)
       IN BindResult(inst, output_name,
            BinaryKernel(op, kind, a.tensor, b.tensor, inst.store.next_id),
            kind)

\* DatabaseInstance::eval_matmul
eval_matmul(inst, output_name, left_name, right_name) ==
  IF ~has_tensor(inst, left_name) \/ ~has_tensor(inst, right_name)
  THEN TFailed(inst)
  ELSE LET a == get_with_kind(inst, left_name)
           b == get_with_kind(inst, right_name)
       IN BindResult(inst, output_name,
            matmul(a.tensor, b.tensor, inst.store.next_id),
            out_kind(a.kind, b.kind))

\* DatabaseInstance::eval_reshape
eval_reshape(inst, output_name, input_name, new_shape) ==
  IF ~has_tensor(inst, input_name) THEN TFailed(inst)
  ELSE LET src == get_with_kind(inst, input_name)
       IN BindResult(inst, output_name,
            reshape(src.tensor, new_shape, inst.store.next_id), src.kind)

\* DatabaseInstance::eval_stack
eval_stack(inst, output_name, input_names, axis) ==
  IF \E j \in 1..Len(input_names) : ~has_tensor(inst, input_names[j])
  THEN TFailed(inst)
  ELSE LET ins == [j \in 1..Len(input_names) |->
                     get_with_kind(inst, input_names[j])]
       IN BindResult(inst, output_name,
            stack([j \in 1..Len(ins) |-> ins[j].tensor], axis,
                  inst.store.next_id),
            OutKind({ins[j].kind : j \in 1..Len(ins)}))

\* DatabaseInstance::eval_index
eval_index(inst, output_name, tensor_name, indices) ==
  IF ~has_tensor(inst, tensor_name) THEN TFailed(inst)
  ELSE LET src == get_with_kind(inst, tensor_name)
       IN BindResult(inst, output_name,
            index_to_scalar(src.tensor, indices, inst.store.next_id), src.kind)

\* DatabaseInstance::eval_slice
eval_slice(inst, output_name, tensor_name, specs, overflow_checks) ==
  IF ~has_tensor(inst, tensor_name) THEN TFailed(inst)
  ELSE LET src == get_with_kind(inst, tensor_name)
       IN BindResult(inst, output_name,
            slice_multi(src.tensor, specs, inst.store.next_id, overflow_checks),
            src.kind)

(***************************************************************************)
(* dsl/handlers/operations.rs: LET statements on tensors                    *)
(***************************************************************************)
\* handle_indexing: name[specs]; all plain indices go to eval_index
handle_indexing(inst, output_name, tensor_name, specs, overflow_checks) ==
  IF \A j \in 1..Len(specs) : specs[j].k = "Index"
  THEN eval_index(inst, output_name, tensor_name,
                  [j \in 1..Len(specs) |-> specs[j].a])
  ELSE eval_slice(inst, output_name, tensor_name, specs, overflow_checks)

\* an operand of an infix expression: a variable, or name[specs]
Operand(name, indexed, specs) ==
  [name |-> name, indexed |-> indexed, specs |-> specs]

\* format!("_tmp_{}_{}", base_name, suffix), suffix "L_<nanos>" or "R_<nanos>"
TempName(base_name, side, timestamp) ==
  "_tmp_" \o base_name \o "_" \o side \o "_" \o NatToString(timestamp)

\* evaluate_operand: [ok, panic, inst, name]
evaluate_operand(inst, operand, temp_name, overflow_checks) ==
  IF operand.indexed
  THEN LET r == handle_indexing(inst, temp_name, operand.name, operand.specs,
                                overflow_checks)
       IN [ok |-> r.ok, panic |-> r.panic, inst |-> r.inst, name |-> temp_name]
  ELSE [ok |-> TRUE, panic |-> FALSE, inst |-> inst, name |-> operand.name]

\* handle_infix_op: LET output = left op right.  The handler builds no
\* ExecutionContext and calls neither track_tensor nor reset.
handle_infix_op(inst, output_name, left, op, right, timestamp, overflow_checks) ==
  LET l == evaluate_operand(inst, left, TempName(output_name, "L", timestamp),
                            overflow_checks)
      r == evaluate_operand(l.inst, right,
                            TempName(output_name, "R", timestamp),
                            overflow_checks)
  IN IF ~l.ok THEN [ok |-> FALSE, panic |-> l.panic, inst |-> l.inst]
     ELSE IF ~r.ok THEN [ok |-> FALSE, panic |-> r.panic, inst |-> r.inst]
     ELSE eval_binary(r.inst, output_name, l.name, r.name, op)

(***************************************************************************)
(* engine/context.rs: ExecutionContext holds lists of IDs and no reference  *)
(* to a store.  No handler and no engine method constructs one.            *)
(***************************************************************************)
\* ExecutionContext::new
ExecutionContextNew == [temp_tensors |-> <<>>, temp_datasets |-> <<>>]

\* ExecutionContext::track_tensor
track_tensor(ctx, id) ==
  [ctx EXCEPT !.temp_tensors = Append(ctx.temp_tensors, id)]

\* ExecutionContext::reset: clears the lists of IDs
reset(ctx) == [ctx EXCEPT !.temp_tensors = <<>>, !.temp_datasets = <<>>]

(***************************************************************************)
(* engine/db.rs: TensorDb, the registry of databases.  config is the       *)
(* configured default-database name, config.storage.default_db.            *)
(***************************************************************************)
\* the name drop_database and its switch of the active database hard-code
DefaultName == "default"

\* InMemoryTensorStore::insert_tensor: the ID is taken before Tensor::new
\* checks the data against the shape.  [ok, store]
insert_tensor(store, shape, data) ==
  LET id == store.next_id
      store1 == [store EXCEPT !.next_id = id + 1]
  IN IF ~TensorNew(id, shape, data).ok THEN [ok |-> FALSE, store |-> store1]
     ELSE [ok |-> TRUE,
           store |-> [store1 EXCEPT !.tensors =
                        Append(store.tensors, TensorNew(id, shape, data).tensor)]]

\* DatabaseInstance::insert_named_with_kind: [ok, inst]
insert_named_with_kind(inst, name, shape, data, kind) ==
  LET r == insert_tensor(inst.store, shape, data)
  IN IF ~r.ok THEN [ok |-> FALSE, inst |-> [inst EXCEPT !.store = r.store]]
     ELSE [ok |-> TRUE,
           inst |-> [inst EXCEPT
                       !.store = r.store,
                       !.names = (name :> [id |-> inst.store.next_id,
                                           kind |-> kind]) @@ inst.names]]

\* TensorDb::with_config, with no database directories to recover
with_config(default_name) ==
  [databases |-> (default_name :> DatabaseInstanceNew(default_name)),
   active_db |-> default_name]

\* TensorDb::active_instance does not panic
ActiveExists == active_db \in DOMAIN databases

\* TensorDb::active_instance
active_instance == databases[active_db]

\* TensorDb::create_database: [ok, dbs]
create_database(dbs, name) ==
  IF name \in DOMAIN dbs THEN [ok |-> FALSE, dbs |-> dbs]
  ELSE [ok |-> TRUE, dbs |-> (name :> DatabaseInstanceNew(name)) @@ dbs]

\* TensorDb::use_database: [ok, active]
use_database(dbs, active, name) ==
  IF name \notin DOMAIN dbs THEN [ok |-> FALSE, active |-> active]
  ELSE [ok |-> TRUE, active |-> name]

\* a drop that leaves the active name alone
drop_database_keep_active(dbs, active, name) ==
  IF name = DefaultName \/ name \notin DOMAIN dbs
  THEN [ok |-> FALSE, dbs |-> dbs, active |-> active]
  ELSE [ok |-> TRUE, dbs |-> [d \in DOMAIN dbs \ {name} |-> dbs[d]],
        active |-> active]

\* TensorDb::drop_database: [ok, dbs, active]
drop_database(dbs, active, name) ==
  IF name = DefaultName THEN [ok |-> FALSE, dbs |-> dbs, active |-> active]
  ELSE IF name \notin DOMAIN dbs
  THEN [ok |-> FALSE, dbs |-> dbs, active |-> active]
  ELSE [ok |-> TRUE,
        dbs |-> [d \in DOMAIN dbs \ {name} |-> dbs[d]],
        active |-> IF active = name THEN DefaultName ELSE active]

(***************************************************************************)
(* Inputs of the statements.  Every statement is tried on "t"; "u" is      *)
(* created, queried or searched into, inserted into and materialized.      *)
(***************************************************************************)
DatasetNames == {"t", "u"}
AlterNames == {"t"}
SearchTargets == {"u"}
ColumnNames == {"a", "c"}
Literals == {IntV(1), IntV(2), StrV("1")}
Vectors == {VecV(<<2, 0>>), VecV(<<0, 2>>)}
IntFields == <<FieldNew("a", ScalarT("Int"))>>
VecFields == <<FieldNew("a", ScalarT("Int")), FieldNew("v", VectorT(2))>>
FieldInputs == {IntFields, VecFields}
ValueInputs == {<<IntV(1)>>, <<IntV(2)>>, <<StrV("1")>>,
                <<IntV(1), IntV(1)>>, <<IntV(2), IntV(1)>>,
                <<IntV(1), VecV(<<2, 0>>)>>, <<IntV(2), VecV(<<0, 2>>)>>}
DefaultInputs == {NoneV, StrV("1")}
ExprInputs == {BinE(LeafCol("a"), "+", LeafLit(IntV(1)))}
NodeInputs == {<<>>, <<ProjectNode(<<"a">>)>>, <<LimitNode(1)>>}
                 \cup {<<FilterNode("a", op, v)>> : op \in {"=", ">"}, v \in Literals}

\* the inputs of the statements run beside the registry operations
DbNames == {"default", "main"}
ConfigInputs == {"default", "main"}
RegDatasetNames == {"t"}
RegValueInputs == {<<IntV(1)>>}
TensorNames == {"w"}
TensorInputs == {<<2>>, <<2, 4>>}

(***************************************************************************)
(* The statements as steps of the engine.  last records the statement that *)
(* was executed, the database it ran in, the name it was about and whether *)
(* it returned Ok.                                                         *)
(***************************************************************************)
Outcome(op, name, ok) == [op |-> op, db |-> active_db, name |-> name, ok |-> ok]

\* a delegation that writes the result into every registered database
StatementEverywhere(op, name, r) ==
  /\ ActiveExists
  /\ last.op # "panic"
  /\ databases' = [d \in DOMAIN databases |-> r.inst]
  /\ last' = Outcome(op, name, r.ok)
  /\ UNCHANGED <<active_db, config, srv>>

\* a TensorDb method that delegates to active_instance_mut() and leaves
\* r.inst there
Statement(op, name, r) ==
  /\ ActiveExists
  /\ last.op # "panic"
  /\ databases' = [databases EXCEPT ![active_db] = r.inst]
  /\ last' = Outcome(op, name, r.ok)
  /\ UNCHANGED <<active_db, config, srv>>

\* the active instance can still generate a dataset ID within the bound
IdsLeft == ActiveExists /\ active_instance.dataset_store.next_id < MaxIds

\* the dataset, if there is one, may still grow by a row
RowsLeft(name) ==
  /\ ActiveExists
  /\ has_dataset(active_instance, name)
       => Len(get_dataset(active_instance, name).rows) < MaxRows

\* the dataset, if there is one, may still grow by a column
ColsLeft(name) ==
  /\ ActiveExists
  /\ has_dataset(active_instance, name)
       => Len(get_dataset(active_instance, name).schema.fields) < MaxCols

\* the index columns of the dataset, if there is one
IndexedColumns(name) ==
  IF ActiveExists /\ has_dataset(active_instance, name)
  THEN DOMAIN get_dataset(active_instance, name).indices
  ELSE {}

\* DATASET name COLUMNS (...)
DoCreateDataset(names, fieldsets) ==
  \E name \in names, fields \in fieldsets :
    /\ IdsLeft
    /\ Statement("create_dataset", name,
         handle_dataset_creation(active_instance, name, fields,
                                 UsedPtrs(databases)))

\* INSERT INTO name VALUES (...)
DoInsertRow(names, valuesets) ==
  \E name \in names, values \in valuesets :
    /\ RowsLeft(name)
    /\ \E order \in IterOrders(IndexedColumns(name)) :
         Statement("insert", name,
                   handle_insert(active_instance, name, values, order))

CreateDataset == DoCreateDataset(DatasetNames, FieldInputs)

InsertRow == DoInsertRow(DatasetNames, ValueInputs)

\* DATASET name ADD COLUMN col: TYPE[?] [DEFAULT val]
AddColumn ==
  \E name \in AlterNames, col \in ColumnNames, nullable \in BOOLEAN,
     dv \in DefaultInputs :
    /\ ColsLeft(name)
    /\ Statement("add_column", name,
         handle_add_column(active_instance, name, col, ScalarT("Int"), dv,
                           nullable, UsedPtrs(databases)))

\* DATASET name ADD COLUMN col = expr [LAZY]
AddComputedColumn ==
  \E name \in AlterNames, col \in ColumnNames, expr \in ExprInputs,
     is_lazy \in BOOLEAN :
    /\ ColsLeft(name)
    /\ Statement(IF is_lazy THEN "add_lazy_column" ELSE "add_computed_column",
         name,
         handle_add_computed_column(active_instance, name, col, expr, is_lazy,
                                    UsedPtrs(databases)))

\* MATERIALIZE name
Materialize ==
  \E name \in DatasetNames :
    /\ ActiveExists
    /\ Statement("materialize", name,
         handle_materialize(active_instance, name, UsedPtrs(databases)))

\* CREATE INDEX idx ON name(col)
CreateIndex ==
  \E name \in AlterNames, col \in ColumnNames :
    /\ ActiveExists
    /\ Statement("create_index", name,
         handle_create_index(active_instance, name, col, FALSE))

\* CREATE VECTOR INDEX idx ON name(col)
CreateVectorIndex ==
  \E name \in AlterNames, col \in {"v"} :
    /\ ActiveExists
    /\ Statement("create_vector_index", name,
         handle_create_index(active_instance, name, col, TRUE))

\* DATASET target FROM source [FILTER ...] [SELECT ...] [LIMIT n]
DatasetQuery ==
  \E target \in DatasetNames, source \in AlterNames, nodes \in NodeInputs :
    /\ IdsLeft
    /\ Statement("query", target,
         handle_dataset_query(active_instance, target, source, nodes,
                              UsedPtrs(databases)))

\* SEARCH target FROM source QUERY vector ON col K=k
Search ==
  \E target \in SearchTargets, source \in AlterNames, query \in Vectors,
     k \in {1} :
    LET r == handle_search(active_instance, target, source, query.x, "v", k)
    IN /\ IdsLeft
       /\ last.op # "panic"
       /\ databases' = [databases EXCEPT ![active_db] = r.inst]
       /\ last' = Outcome(IF r.panic THEN "panic" ELSE "search", target, r.ok)
       /\ UNCHANGED <<active_db, config, srv>>

(***************************************************************************)
(* The registry operations and the statements run beside them              *)
(***************************************************************************)
\* CREATE DATABASE name
CreateDatabase ==
  \E name \in DbNames :
    LET r == create_database(databases, name)
    IN /\ last.op # "panic"
       /\ Cardinality(DOMAIN databases) < MaxDbs
       /\ databases' = r.dbs
       /\ last' = Outcome("create_database", name, r.ok)
       /\ UNCHANGED <<active_db, config, srv>>

\* USE name
UseDatabase ==
  \E name \in DbNames :
    LET r == use_database(databases, active_db, name)
    IN /\ last.op # "panic"
       /\ active_db' = r.active
       /\ last' = Outcome("use_database", name, r.ok)
       /\ UNCHANGED <<databases, config, srv>>

\* DROP DATABASE name
DropDatabase ==
  \E name \in DbNames :
    LET r == drop_database(databases, active_db, name)
    IN /\ last.op # "panic"
       /\ databases' = r.dbs
       /\ active_db' = r.active
       /\ last' = Outcome("drop_database", name, r.ok)
       /\ UNCHANGED <<config, srv>>

RegCreateDataset == DoCreateDataset(RegDatasetNames, {IntFields})

RegInsertRow == DoInsertRow(RegDatasetNames, RegValueInputs)

\* DEFINE name AS TENSOR [...]: TensorDb::insert_named
DefineTensor ==
  \E name \in TensorNames, data \in TensorInputs :
    /\ ActiveExists
    /\ active_instance.store.next_id < MaxTensors
    /\ Statement("define_tensor", name,
         insert_named_with_kind(active_instance, name, <<1>>, data, "Normal"))

\* a statement that resolves the active instance when its name is not in
\* the registry: expect("Active DB must exist") panics
ActivePanic ==
  /\ ~ActiveExists
  /\ last.op # "panic"
  /\ last' = Outcome("panic", "", FALSE)
  /\ UNCHANGED <<databases, active_db, config, srv>>

(***************************************************************************)
(* server/mod.rs: the HTTP front end.  Every request spawns a blocking      *)
(* task that locks the Mutex around the TensorDb and runs execute_line;     *)
(* the request waits for the task under a timeout.  srv holds the mutex,   *)
(* the tasks, and the orders of submission and of completion.              *)
(***************************************************************************)
MaxRequests == 3
Requests == 1..MaxRequests

\* Mutex::new
MutexNew == [locked |-> FALSE, poisoned |-> FALSE]

\* a lock() that returns although another task holds the guard
MutexAvailableAlways(mutex) == TRUE

\* Mutex::lock returns: no other task holds the guard
MutexAvailable(mutex) == ~mutex.locked

\* no request yet
NoTask ==
  [pc |-> "none", cmd |-> "", step |-> 0, ok |-> FALSE, resp |-> "none",
   seen |-> <<>>]

\* the state of start_server: AppState { db: Arc<Mutex<TensorDb>> }
ServerNew ==
  [mutex |-> MutexNew, tasks |-> [r \in Requests |-> NoTask],
   submitted |-> <<>>, executed |-> <<>>]

\* the statements the clients send
Commands == {"define_v", "define_m", "infix", "slice"}

\* the operands of LET c = a[0] + a
InfixLeft == Operand("a", TRUE, <<SpecIndex(0)>>)
InfixRight == Operand("a", FALSE, <<>>)

\* execute_line on the engine, the whole statement: [ok, panic, inst].
\* timestamp is the clock read by handle_infix_op.
execute_line(inst, cmd, timestamp, overflow_checks) ==
  CASE cmd = "define_v" ->
         LET r == insert_named_with_kind(inst, "a", <<2>>, <<1, 0>>, "Normal")
         IN [ok |-> r.ok, panic |-> FALSE, inst |-> r.inst]
    [] cmd = "define_m" ->
         LET r == insert_named_with_kind(inst, "a", <<2, 2>>, <<1, 2, 0, 1>>,
                                         "Normal")
         IN [ok |-> r.ok, panic |-> FALSE, inst |-> r.inst]
    [] cmd = "slice" ->
         handle_indexing(inst, "c", "a", <<SpecIndex(2), SpecAll>>,
                         overflow_checks)
    [] cmd = "infix" ->
         handle_infix_op(inst, "c", InfixLeft, "+", InfixRight, timestamp,
                         overflow_checks)

\* the number of engine calls the statement makes when none of them fails
StepsOf(cmd) == IF cmd = "infix" THEN 2 ELSE 1

\* the engine call number step (from 0) of the statement: [ok, panic, inst]
StatementStep(inst, cmd, step, timestamp, overflow_checks) ==
  IF cmd # "infix" THEN execute_line(inst, cmd, timestamp, overflow_checks)
  ELSE IF step = 0
  THEN LET l == evaluate_operand(inst, InfixLeft,
                                 TempName("c", "L", timestamp), overflow_checks)
       IN [ok |-> l.ok, panic |-> l.panic, inst |-> l.inst]
  ELSE eval_binary(inst, "c", TempName("c", "L", timestamp), "a", "+")

\* a request arrives: execute_command spawns the blocking task and waits for
\* it under the timeout.  Requests are numbered in the order of submission.
Submit ==
  \E cmd \in Commands :
    LET r == Len(srv.submitted) + 1
    IN /\ r <= MaxRequests
       /\ srv' = [srv EXCEPT !.tasks[r] = [NoTask EXCEPT !.pc = "spawned",
                                                         !.cmd = cmd],
                             !.submitted = Append(srv.submitted, r)]
       /\ UNCHANGED <<databases, active_db, config, last>>

\* db_arc.lock().unwrap() in the task: the guard is taken, or the mutex is
\* poisoned and unwrap panics, dropping the guard
Lock(r) ==
  /\ srv.tasks[r].pc = "spawned"
  /\ MutexAvailable(srv.mutex)
  /\ srv' = IF srv.mutex.poisoned
            THEN [srv EXCEPT !.tasks[r].pc = "panicked"]
            ELSE [srv EXCEPT !.tasks[r].pc = "running",
                             !.tasks[r].seen = <<active_instance>>,
                             !.mutex.locked = TRUE]
  /\ UNCHANGED <<databases, active_db, config, last>>

\* one engine call of the statement the task runs under the guard; after the
\* last one, or a failed one, the closure returns and the guard is dropped.
\* A panic unwinds the task: the guard is dropped and the mutex poisoned.
Step(r) ==
  \E overflow_checks \in BOOLEAN :
    LET task == srv.tasks[r]
        out == StatementStep(active_instance, task.cmd, task.step, r,
                             overflow_checks)
        over == ~out.ok \/ task.step + 1 = StepsOf(task.cmd)
    IN /\ task.pc = "running"
       /\ ActiveExists
       /\ databases' = IF out.panic THEN databases
                       ELSE [databases EXCEPT ![active_db] = out.inst]
       /\ srv' = IF out.panic
                 THEN [srv EXCEPT !.tasks[r].pc = "panicked",
                                  !.mutex = [locked |-> FALSE,
                                             poisoned |-> TRUE]]
                 ELSE IF over
                 THEN [srv EXCEPT !.tasks[r].pc = "done",
                                  !.tasks[r].ok = out.ok,
                                  !.mutex.locked = FALSE,
                                  !.executed = Append(srv.executed, r)]
                 ELSE [srv EXCEPT !.tasks[r].step = task.step + 1]
       /\ last' = IF out.panic \/ over
                  THEN [op |-> IF out.panic THEN "task_panic" ELSE task.cmd,
                        db |-> active_db, name |-> "", ok |-> out.ok]
                  ELSE last
       /\ UNCHANGED <<active_db, config>>

\* tokio::time::timeout fires before the task has finished: the request
\* answers "Query timed out" and drops the JoinHandle; the task is detached
Timeout(r) ==
  /\ srv.tasks[r].pc \in {"spawned", "running"}
  /\ srv.tasks[r].resp = "none"
  /\ srv' = [srv EXCEPT !.tasks[r].resp = "timeout"]
  /\ UNCHANGED <<databases, active_db, config, last>>

\* the task has finished in time: the request answers with its result
Respond(r) ==
  /\ srv.tasks[r].pc \in {"done", "panicked"}
  /\ srv.tasks[r].resp = "none"
  /\ srv' = [srv EXCEPT !.tasks[r].resp =
               IF srv.tasks[r].pc = "panicked" THEN "panicked"
               ELSE IF srv.tasks[r].ok THEN "ok" ELSE "error"]
  /\ UNCHANGED <<databases, active_db, config, last>>

(***************************************************************************)
(* query/logical.rs and query/physical.rs: aggregation.  An aggregate is    *)
(* [func, col], Expr::AggregateExpr over Expr::Column(col); a group key    *)
(* is a sequence of column names.  Scalar columns only.                    *)
(***************************************************************************)
AggE(func, col) == [func |-> func, col |-> col]

\* infer_expr_type_full on a column; ValueType::Null when it is missing
infer_expr_type_full(col, fields) ==
  IF has_field(fields, col) THEN fields[get_field_index(fields, col)].value_type
  ELSE ScalarT("Null")

\* LogicalPlan::schema, the Aggregate arm: every group key is given the
\* placeholder type String; an aggregate is named by its function
AggregateSchema(input_fields, group_expr, aggr_expr) ==
  [j \in 1..Len(group_expr) |-> FieldNew(group_expr[j], ScalarT("String"))]
    \o [j \in 1..Len(aggr_expr) |->
          FieldNew(aggr_expr[j].func,
                   CASE aggr_expr[j].func \in {"Sum", "Min", "Max"} ->
                          infer_expr_type_full(aggr_expr[j].col, input_fields)
                     [] aggr_expr[j].func = "Avg" -> ScalarT("Float")
                     [] OTHER -> ScalarT("Int"))]

\* the accumulators of one aggregate in one group: accs[i] is v and
\* avg_accs[i] is (sum, count)
InitAcc(func) ==
  [v |-> IF func \in {"Count", "Sum"} THEN IntV(0) ELSE NullV,
   sum |-> IF func = "Avg" THEN FloatV(0) ELSE NullV,
   count |-> 0]

\* the update of the accumulators with the value of one row
UpdateAcc(func, acc, val) ==
  CASE func = "Count" -> [acc EXCEPT !.v = IntV(acc.v.i + 1)]
    [] func = "Sum" ->
         [acc EXCEPT !.v =
            CASE acc.v.t = "Int" /\ val.t = "Int" -> IntV(acc.v.i + val.i)
              [] acc.v.t = "Float" /\ val.t = "Float" -> FloatV(acc.v.i + val.i)
              [] acc.v.t = "Int" /\ val.t = "Float" -> FloatV(2 * acc.v.i + val.i)
              [] acc.v.t = "Float" /\ val.t = "Int" -> FloatV(acc.v.i + 2 * val.i)
              [] OTHER -> acc.v]
    [] func = "Avg" ->
         [acc EXCEPT !.count = acc.count + 1,
                     !.sum = CASE val.t = "Int" -> FloatV(acc.sum.i + 2 * val.i)
                               [] val.t = "Float" -> FloatV(acc.sum.i + val.i)
                               [] OTHER -> acc.sum]
    [] func = "Max" ->
         [acc EXCEPT !.v = IF is_null(acc.v) THEN val
                           ELSE IF ~is_null(val) /\ compare(val, acc.v) = "Greater"
                           THEN val ELSE acc.v]
    [] func = "Min" ->
         [acc EXCEPT !.v = IF is_null(acc.v) THEN val
                           ELSE IF ~is_null(val) /\ compare(val, acc.v) = "Less"
                           THEN val ELSE acc.v]

\* the accumulators after the first n values of a group
RECURSIVE Accumulate(_, _, _)
Accumulate(func, vals, n) ==
  IF n = 0 THEN InitAcc(func)
  ELSE UpdateAcc(func, Accumulate(func, vals, n - 1), vals[n])

\* an average that is the sum itself
FinalizeAvgUndivided(sum, count) == sum

\* sum / count as f32, on a Float sum
FinalizeAvg(sum, count) ==
  IF sum.t = "Float" THEN FloatArith(sum.i, "/", 2 * count) ELSE NullV

\* the value an aggregate emits for a group
FinalizeAcc(func, acc) ==
  IF func # "Avg" THEN acc.v
  ELSE IF acc.count > 0 THEN FinalizeAvg(acc.sum, acc.count)
  ELSE NullV

\* the group key of a row
GroupKey(row, group_expr) ==
  [j \in 1..Len(group_expr) |-> evaluate_expression(ColE(group_expr[j]), row)]

\* the rows at which a group key occurs first: one per entry of the HashMap
GroupFirsts(rows, group_expr) ==
  {i \in 1..Len(rows) :
     \A h \in 1..(i - 1) :
       GroupKey(rows[h], group_expr) # GroupKey(rows[i], group_expr)}

\* the orders in which the HashMap may be iterated
GroupOrders(rows, group_expr) ==
  LET firsts == GroupFirsts(rows, group_expr)
  IN {order \in [1..Cardinality(firsts) -> firsts] :
        \A i, j \in DOMAIN order : order[i] = order[j] => i = j}

\* the values of the output row of the group met first at row i
GroupValues(rows, group_expr, aggr_expr, i) ==
  LET key == GroupKey(rows[i], group_expr)
      members == SelectSeq(rows, LAMBDA row : GroupKey(row, group_expr) = key)
  IN key \o [j \in 1..Len(aggr_expr) |->
               FinalizeAcc(aggr_expr[j].func,
                 Accumulate(aggr_expr[j].func,
                            [m \in 1..Len(members) |->
                               evaluate_expression(ColE(aggr_expr[j].col),
                                                   members[m])],
                            Len(members)))]

\* AggregateExec::execute on the rows of its input: [ok, rows]; order is the
\* iteration order of the groups
AggregateExec(rows, group_expr, aggr_expr, schema, order) ==
  IF rows = <<>> THEN [ok |-> TRUE, rows |-> <<>>]
  ELSE LET out == [g \in 1..Len(order) |->
                     GroupValues(rows, group_expr, aggr_expr, order[g])]
       IN IF \E g \in 1..Len(out) : ~TupleNewOk(schema, out[g])
          THEN [ok |-> FALSE, rows |-> <<>>]
          ELSE [ok |-> TRUE,
                rows |-> [g \in 1..Len(out) |-> TupleOf(schema, out[g])]]

\* handle_select with aggregates: SELECT aggr_expr FROM source [GROUP BY
\* group_expr], planned as Aggregate over Scan and executed: [ok, rows, schema]
handle_select(inst, source_name, group_expr, aggr_expr, order, used) ==
  IF ~has_dataset(inst, source_name)
  THEN [ok |-> FALSE, rows |-> <<>>, schema |-> SchemaAt(Fresh(used), <<>>)]
  ELSE LET input == SeqScanExec(inst, source_name)
           schema == SchemaAt(Fresh(used),
                       AggregateSchema(get_dataset(inst, source_name).schema.fields,
                                       group_expr, aggr_expr))
       IN IF ~input.ok THEN [ok |-> FALSE, rows |-> <<>>, schema |-> schema]
          ELSE [schema |-> schema]
                 @@ AggregateExec(input.rows, group_expr, aggr_expr, schema, order)

\* the inputs of the aggregation statements
AggFieldInputs ==
  {<<FieldNew("k", ScalarT("String")), FieldNew("x", ScalarT("Int"))>>,
   <<FieldNew("k", ScalarT("Int")), FieldNew("x", ScalarT("Int"))>>,
   <<FieldNew("k", ScalarT("String")), FieldNew("x", ScalarT("Float"))>>}
AggValueInputs ==
  {<<StrV("n"), IntV(1)>>, <<StrV("n"), IntV(2)>>, <<StrV("s"), IntV(2)>>,
   <<IntV(1), IntV(1)>>, <<IntV(2), IntV(2)>>,
   <<StrV("n"), FloatV(3)>>, <<StrV("s"), FloatV(1)>>}
GroupInputs == {<<>>, <<"k">>}
AggrInputs ==
  {<<AggE("Avg", "x")>>, <<AggE("Count", "x"), AggE("Sum", "x")>>,
   <<AggE("Sum", "x"), AggE("Avg", "x")>>, <<AggE("Min", "x"), AggE("Max", "x")>>}

AggCreateDataset == DoCreateDataset({"t"}, AggFieldInputs)

AggInsertRow == DoInsertRow({"t"}, AggValueInputs)

\* SELECT aggr_expr FROM t [GROUP BY group_expr]: last records the
\* statement, the fields of the plan's schema and the values of the rows
Aggregate ==
  \E group_expr \in GroupInputs, aggr_expr \in AggrInputs :
    /\ ActiveExists
    /\ last.op # "panic"
    /\ has_dataset(active_instance, "t")
    /\ \E order \in GroupOrders(SeqScanExec(active_instance, "t").rows,
                                group_expr) :
         LET r == handle_select(active_instance, "t", group_expr, aggr_expr,
                                order, UsedPtrs(databases))
         IN last' = [op |-> "aggregate", db |-> active_db, name |-> "t",
                     ok |-> r.ok, group_expr |-> group_expr,
                     aggr_expr |-> aggr_expr,
                     fields |-> r.schema.fields,
                     rows |-> [g \in 1..Len(r.rows) |-> r.rows[g].values]]
    /\ UNCHANGED <<databases, active_db, config, srv>>

(***************************************************************************)
(* Specifications                                                          *)
(***************************************************************************)
\* the engine as TensorDb::with_config leaves it
InitWith(default_name) ==
  /\ databases = with_config(default_name).databases
  /\ active_db = with_config(default_name).active_db
  /\ config = default_name
  /\ last = [op |-> "init", db |-> default_name, name |-> "", ok |-> TRUE]
  /\ srv = ServerNew

\* the statements on datasets, under the configuration main.rs writes
Init == InitWith(DefaultName)

Next ==
  \/ CreateDataset
  \/ InsertRow
  \/ AddColumn
  \/ AddComputedColumn
  \/ Materialize
  \/ CreateIndex
  \/ CreateVectorIndex
  \/ DatasetQuery
  \/ Search

Spec == Init /\ [][Next]_vars

\* a dataset that is created, indexed and appended to, and nothing else
NextIdx ==
  \/ CreateDataset
  \/ InsertRow
  \/ CreateIndex

SpecIdx == Init /\ [][NextIdx]_vars

\* the registry of databases, under every configured default name
InitReg == \E default_name \in ConfigInputs : InitWith(default_name)

NextReg ==
  \/ CreateDatabase
  \/ UseDatabase
  \/ DropDatabase
  \/ RegCreateDataset
  \/ RegInsertRow
  \/ DefineTensor
  \/ ActivePanic

SpecReg == InitReg /\ [][NextReg]_vars

(***************************************************************************)
(* Statements on tensors: DEFINE and LET in the active database.  last      *)
(* also records the operand names; a statement whose kernel panics ends     *)
(* the process, and last.op is "panic".                                     *)
(***************************************************************************)
TensorKinds == {"Normal", "Strict"}
DefineNames == {"a", "b"}
OutputNames == {"c"}
OperandNames == {"a", "b", "c"}
DefineInputs ==
  {[shape |-> <<>>, data |-> <<2>>],
   [shape |-> <<1>>, data |-> <<2>>],
   [shape |-> <<2>>, data |-> <<1, 0>>],
   [shape |-> <<2, 2>>, data |-> <<1, 2, 0, 1>>]}
ElementOps == {"+", "-", "*", "/"}
BinaryOps == ElementOps \cup {"Correlate"}
UnaryOps == {"Scale", "Transpose", "Flatten"}
ReshapeInputs == {<<4>>, <<3>>}
SliceInputs ==
  {<<SpecAll>>, <<SpecRange(0, 1)>>, <<SpecIndex(0)>>, <<SpecIndex(2)>>,
   <<SpecIndex(0), SpecAll>>, <<SpecIndex(2), SpecAll>>,
   <<SpecAll, SpecAll>>, <<SpecAll, SpecRange(1, 2)>>,
   <<SpecRange(1, 0), SpecRange(0, 0)>>, <<SpecIndex(0), SpecRange(0, 3)>>}
Timestamps == {1}
InfixOps == {"+", "*"}
InfixOperands ==
  {Operand(n, FALSE, <<>>) : n \in DefineNames}
    \cup {Operand("a", TRUE, <<SpecIndex(0)>>)}

\* a TensorDb method on tensors, delegated to active_instance_mut()
TensorStatement(op, name, left, right, r) ==
  /\ last.op # "panic"
  /\ r.inst.store.next_id <= MaxTensorIds
  /\ databases' = IF r.panic THEN databases
                  ELSE [databases EXCEPT ![active_db] = r.inst]
  /\ last' = [op |-> IF r.panic THEN "panic" ELSE op, db |-> active_db,
              name |-> name, ok |-> r.ok, left |-> left, right |-> right]
  /\ UNCHANGED <<active_db, config, srv>>

\* the active store has handed out fewer than MaxTensorIds IDs
TensorIdsLeft == ActiveExists /\ active_instance.store.next_id < MaxTensorIds

\* DEFINE name AS [STRICT] TENSOR shape VALUES data
DefineKind ==
  \E name \in DefineNames, kind \in TensorKinds, t \in DefineInputs :
    /\ TensorIdsLeft
    /\ LET r == insert_named_with_kind(active_instance, name, t.shape, t.data, kind)
       IN TensorStatement("define", name, name, name,
                          [ok |-> r.ok, panic |-> FALSE, inst |-> r.inst])

\* LET c = SCALE a BY 2, TRANSPOSE a, FLATTEN a
Unary ==
  \E out \in OutputNames, name \in OperandNames, op \in UnaryOps :
    /\ TensorIdsLeft
    /\ TensorStatement("unary", out, name, name,
                       eval_unary(active_instance, out, name, op, 2))

\* LET c = ADD a b, SUBTRACT, MULTIPLY, DIVIDE, CORRELATE a WITH b; last.op is
\* the operator
Binary ==
  \E out \in OutputNames, left \in OperandNames, right \in OperandNames,
     op \in BinaryOps :
    /\ TensorIdsLeft
    /\ TensorStatement(op, out, left, right,
                       eval_binary(active_instance, out, left, right, op))

\* LET c = MATMUL a b
Matmul ==
  \E out \in OutputNames, left \in OperandNames, right \in OperandNames :
    /\ TensorIdsLeft
    /\ TensorStatement("matmul", out, left, right,
                       eval_matmul(active_instance, out, left, right))

\* LET c = RESHAPE a TO [dims]
Reshape ==
  \E out \in OutputNames, name \in OperandNames, shape \in ReshapeInputs :
    /\ TensorIdsLeft
    /\ TensorStatement("reshape", out, name, name,
                       eval_reshape(active_instance, out, name, shape))

\* LET c = STACK a b
Stack ==
  \E out \in OutputNames, left \in OperandNames, right \in OperandNames :
    /\ TensorIdsLeft
    /\ TensorStatement("stack", out, left, right,
                       eval_stack(active_instance, out, <<left, right>>, 0))

\* LET c = a[specs], under either setting of the build's overflow checks
Indexing ==
  \E out \in OutputNames, name \in OperandNames, specs \in SliceInputs,
     overflow_checks \in BOOLEAN :
    /\ TensorIdsLeft
    /\ TensorStatement("indexing", out, name, name,
         handle_indexing(active_instance, out, name, specs, overflow_checks))

\* LET c = left op right with operands that may be indexing expressions;
\* timestamp is the clock's nanoseconds when the statement runs
Infix ==
  \E out \in OutputNames, left \in InfixOperands, right \in InfixOperands,
     op \in InfixOps, timestamp \in Timestamps :
    /\ TensorIdsLeft
    /\ TensorStatement("infix", out, left.name, right.name,
         handle_infix_op(active_instance, out, left, op, right,
                         timestamp, TRUE))

NextTensor ==
  \/ DefineKind
  \/ Unary
  \/ Binary
  \/ Matmul
  \/ Reshape
  \/ Stack
  \/ Indexing
  \/ Infix

SpecTensor == Init /\ [][NextTensor]_vars

NextServer ==
  \/ Submit
  \/ \E r \in Requests : Lock(r)
  \/ \E r \in Requests : Step(r)
  \/ \E r \in Requests : Timeout(r)
  \/ \E r \in Requests : Respond(r)

SpecServer == Init /\ [][NextServer]_vars

\* every spawned task gets a thread of the blocking pool and every thread
\* keeps running; a task waiting for the mutex gets it once it stays free
FairServer ==
  \A r \in Requests : WF_vars(Lock(r)) /\ WF_vars(Step(r))

SpecServerFair == SpecServer /\ FairServer

NextAgg ==
  \/ AggCreateDataset
  \/ AggInsertRow
  \/ Aggregate

SpecAgg == Init /\ [][NextAgg]_vars

(***************************************************************************)
(* DATASET u FROM t [FILTER ...] [SELECT ...] [ORDER BY ...] [LIMIT n]     *)
(* over one dataset with an Int and a Vector column: the plan, its schema  *)
(* and the rows it produces.                                               *)
(***************************************************************************)
PlanValueInputs ==
  {<<IntV(1), VecV(<<2, 0>>)>>, <<IntV(2), VecV(<<0, 2>>)>>,
   <<IntV(2), VecV(<<2, 0>>)>>}
ComparisonOps == {"=", "!=", ">", "<", ">=", "<="}
PlanLiterals == {IntV(1), IntV(2)}
PlanInputs ==
  {<<>>, <<ProjectNode(<<"a">>)>>, <<ProjectNode(<<"v", "a">>)>>,
   <<ProjectNode(<<"a", "zz">>)>>,
   <<FilterNode("a", "=", IntV(1)), ProjectNode(<<"a">>)>>,
   <<LimitNode(1), FilterNode("a", "=", IntV(2))>>,
   <<SortNode("a", FALSE)>>, <<SortNode("a", TRUE), LimitNode(1)>>,
   <<SortNode("zz", TRUE)>>, <<FilterNode("v", "=", IntV(1))>>}
    \cup {<<FilterNode("a", op, v)>> : op \in ComparisonOps, v \in PlanLiterals}

PlanCreateDataset == DoCreateDataset({"t"}, {VecFields})

PlanInsertRow == DoInsertRow({"t"}, PlanValueInputs)

\* CREATE [VECTOR] INDEX idx ON t(col)
PlanIndexInputs == {<<"a", FALSE>>, <<"v", FALSE>>, <<"v", TRUE>>}
PlanCreateIndex ==
  \E on \in PlanIndexInputs :
    /\ ActiveExists
    /\ Statement("create_index", "t",
         handle_create_index(active_instance, "t", on[1], on[2]))

\* handle_dataset_query; last records the plan's nodes, the access method
\* and the operators of the physical plan, the fields of the logical and
\* of the physical plan's schema, and the rows the execution returned
PlannedQuery ==
  \E nodes \in PlanInputs :
    /\ IdsLeft
    /\ last.op # "panic"
    /\ has_dataset(active_instance, "t")
    /\ LET current_plan == build_dataset_query_plan(active_instance, "t", nodes)
           physical_plan == create_physical_plan(active_instance, current_plan,
                                                 UsedPtrs(databases))
           result == Execute(active_instance, physical_plan)
           r == handle_dataset_query(active_instance, "u", "t", nodes,
                                     UsedPtrs(databases))
       IN /\ databases' = [databases EXCEPT ![active_db] = r.inst]
          /\ last' = [op |-> "query", db |-> active_db, name |-> "u",
                      ok |-> r.ok, nodes |-> nodes,
                      planned |-> physical_plan.ok,
                      leaf |-> physical_plan.leaf.k,
                      pops |-> [j \in 1..Len(physical_plan.pops) |->
                                  physical_plan.pops[j].k],
                      fields |-> LogicalSchema(current_plan, Len(nodes)),
                      result_fields |-> physical_plan.schema.fields,
                      executed |-> physical_plan.ok /\ result.ok,
                      rows |-> IF physical_plan.ok /\ result.ok
                               THEN [j \in 1..Len(result.rows) |->
                                       [fields |-> result.rows[j].schema.fields,
                                        values |-> result.rows[j].values]]
                               ELSE <<>>]
    /\ UNCHANGED <<active_db, config, srv>>

NextPlan ==
  \/ PlanCreateDataset
  \/ PlanInsertRow
  \/ PlanCreateIndex
  \/ PlannedQuery

SpecPlan == Init /\ [][NextPlan]_vars

(***************************************************************************)
(* SEARCH u FROM t QUERY vector ON v K=k over one dataset with an Int and  *)
(* a Vector column, beside the statements that create its indices and     *)
(* append to it.                                                           *)
(***************************************************************************)
SearchValueInputs ==
  {<<IntV(1), VecV(<<2, 0>>)>>, <<IntV(2), VecV(<<0, 2>>)>>,
   <<IntV(2), VecV(<<1, 1>>)>>, <<IntV(1), VecV(<<0, 0>>)>>}
SearchIndexInputs == {<<"a", FALSE>>, <<"a", TRUE>>, <<"v", TRUE>>}
QueryInputs == {<<2, 0>>, <<1, 1>>, <<0, 0>>}
KInputs == {1, 2}

\* no index of the dataset, if there is one, holds MaxEntries row IDs in
\* one list
EntriesLeft(name) ==
  /\ ActiveExists
  /\ has_dataset(active_instance, name) =>
       \A col \in DOMAIN get_dataset(active_instance, name).indices :
         LET idx == get_dataset(active_instance, name).indices[col]
         IN /\ Len(idx.vectors) < MaxEntries
            /\ \A key \in DOMAIN idx.map : Len(idx.map[key]) < MaxEntries

SearchCreateDataset == DoCreateDataset({"t"}, {VecFields})

SearchInsertRow ==
  /\ EntriesLeft("t")
  /\ DoInsertRow({"t"}, SearchValueInputs)

\* CREATE [VECTOR] INDEX idx ON t(col)
SearchCreateIndex ==
  \E on \in SearchIndexInputs :
    /\ ActiveExists
    /\ Statement("create_index", "t",
         handle_create_index(active_instance, "t", on[1], on[2]))

\* SEARCH u FROM t QUERY query ON v K=k; last records the query and k
VectorSearch ==
  \E query \in QueryInputs, k \in KInputs :
    LET r == handle_search(active_instance, "u", "t", query, "v", k)
    IN /\ IdsLeft
       /\ last.op # "panic"
       /\ databases' = [databases EXCEPT ![active_db] = r.inst]
       /\ last' = [op |-> IF r.panic THEN "panic" ELSE "search",
                   db |-> active_db, name |-> "u", ok |-> r.ok,
                   query |-> query, k |-> k]
       /\ UNCHANGED <<active_db, config, srv>>

NextSearch ==
  \/ SearchCreateDataset
  \/ SearchInsertRow
  \/ SearchCreateIndex
  \/ VectorSearch

SpecSearch == Init /\ [][NextSearch]_vars

(***************************************************************************)
(* Properties                                                              *)
(***************************************************************************)
DatasetsOf(inst) ==
  {inst.dataset_store.datasets[id] : id \in DOMAIN inst.dataset_store.datasets}

AllDatasets == UNION {DatasetsOf(databases[d]) : d \in DOMAIN databases}

RowSet(rows) == {rows[j] : j \in 1..Len(rows)}

IdSet(ids) == {ids[j] : j \in 1..Len(ids)}

\* C1: for every dataset with a hash index on a column and every literal v,
\* the rows IndexScan returns for the column and v are, as a set, the rows
\* that SeqScan followed by Filter col = v returns.
C1_IndexScanEqualsSeqScanFilter ==
  \A d \in DOMAIN databases, name \in DatasetNames, v \in Literals :
    has_dataset(databases[d], name) =>
      \A col \in DOMAIN get_dataset(databases[d], name).indices :
        LET index_rows == IndexScanExec(databases[d], name, col, v)
            scan_rows == SeqScanExec(databases[d], name)
        IN (/\ get_dataset(databases[d], name).indices[col].kind = "Hash"
            /\ index_rows.ok
            /\ scan_rows.ok)
           => RowSet(index_rows.rows)
                = RowSet(FilterExec(scan_rows.rows,
                                    BinE(LeafCol(col), "=", LeafLit(v))))

\* C2: in every dataset of every reachable state, metadata.row_count is the
\* number of stored rows.
C2_RowCountIsLen ==
  \A ds \in AllDatasets : ds.row_count = Len(ds.rows)

\* a query has filled a target with as many rows as a dataset may hold
C2_Witness ==
  /\ last.op = "query"
  /\ last.ok
  /\ \E ds \in AllDatasets :
       ds.name = last.name /\ Len(ds.rows) = MaxRows /\ ds.row_count = MaxRows

\* C3: every stored row's schema reference is the very Arc the dataset's
\* schema is (pointer identity).
C3_RowsShareDatasetSchema ==
  \A ds \in AllDatasets :
    \A j \in 1..Len(ds.rows) : ds.rows[j].schema.ptr = ds.schema.ptr

\* C4: once a hash index exists on a column, through every later append, a
\* lookup of any value returns exactly the IDs of the rows whose value in
\* that column equals it.
C4_LookupReturnsEqualRows ==
  \A ds \in AllDatasets, v \in Literals :
    \A col \in DOMAIN ds.indices :
      ds.indices[col].kind = "Hash" =>
        IdSet(HashIndexLookup(ds.indices[col], v))
          = {j - 1 : j \in {h \in 1..Len(ds.rows) :
                              TupleGet(ds.rows[h], col) = v}}

\* C5: for every entry of the lazy registry, the schema has a field of that
\* name marked is_lazy, and every stored row holds Null in that position.
C5_LazyColumnsStoreNull ==
  \A ds \in AllDatasets :
    \A col \in DOMAIN ds.lazy_expressions :
      LET idx == get_field_index(ds.schema.fields, col)
      IN /\ idx # 0
         /\ ds.schema.fields[idx].is_lazy
         /\ \A j \in 1..Len(ds.rows) : ds.rows[j].values[idx] = NullV

\* C6: a step in which materialize_lazy_columns succeeds leaves the dataset
\* with no field marked is_lazy, with no registry entry for a column that was
\* lazy, and with every row holding, in each column that had a registered
\* expression, the value of that expression on the row as it was stored.
C6_MaterializePostcondition ==
  [][(last'.op = "materialize" /\ last'.ok) =>
       LET before == get_dataset(databases[active_db], last'.name)
           after == get_dataset(databases'[active_db], last'.name)
           lazy == {p \in 1..Len(before.schema.fields) :
                      before.schema.fields[p].is_lazy}
       IN /\ \A p \in 1..Len(after.schema.fields) : ~after.schema.fields[p].is_lazy
          /\ \A p \in lazy :
               before.schema.fields[p].name \notin DOMAIN after.lazy_expressions
          /\ Len(after.rows) = Len(before.rows)
          /\ \A p \in lazy, j \in 1..Len(before.rows) :
               before.schema.fields[p].name \in DOMAIN before.lazy_expressions
                 => after.rows[j].values[p]
                      = evaluate_expression(
                          before.lazy_expressions[before.schema.fields[p].name],
                          before.rows[j])
    ]_vars

\* MATERIALIZE has just turned the lazy column c = a + 1 of a stored row
\* with a = 1 into the stored value 2; the row still carries the Arc of the
\* schema in which c was lazy
C6_Witness ==
  /\ last.op = "materialize"
  /\ last.ok
  /\ \E ds \in AllDatasets :
       /\ ds.name = last.name
       /\ Len(ds.schema.fields) = 2
       /\ ~ds.schema.fields[2].is_lazy
       /\ ds.lazy_expressions = EmptyFn
       /\ \E j \in 1..Len(ds.rows) :
            /\ ds.rows[j].schema.fields[2].is_lazy
            /\ ds.rows[j].values = <<IntV(1), IntV(2)>>

\* C7: the engine's default database, the one named by its configuration,
\* is registered in every reachable state, and a drop_database of it fails.
C7_DefaultDatabaseStays ==
  /\ config \in DOMAIN databases
  /\ (last.op = "drop_database" /\ last.name = config) => ~last.ok

\* C8: drop_database(name) of a registered database other than "default"
\* succeeds and removes it from the registry; the active database becomes
\* "default" if it was the dropped one and is unchanged otherwise.
C8_DropRemovesAndSwitches ==
  [][\A name \in DbNames :
       (/\ last'.op = "drop_database"
        /\ last'.name = name
        /\ name \in DOMAIN databases
        /\ name # DefaultName)
       => /\ last'.ok
          /\ name \notin DOMAIN databases'
          /\ active_db' = IF active_db = name THEN DefaultName ELSE active_db
    ]_vars

\* the active database has just been dropped and "default", which is still
\* registered, is active in its place
C8_Witness ==
  /\ last.op = "drop_database"
  /\ last.ok
  /\ last.db = last.name
  /\ last.name \notin DOMAIN databases
  /\ active_db = DefaultName
  /\ DefaultName \in DOMAIN databases

\* the dataset names of one instance are in one-to-one correspondence with
\* its datasets
NamesUnique(inst) ==
  LET store == inst.dataset_store
  IN /\ \A n \in DOMAIN store.names :
          /\ store.names[n] \in DOMAIN store.datasets
          /\ store.datasets[store.names[n]].name = n
     /\ \A i, j \in DOMAIN store.datasets :
          store.datasets[i].name = store.datasets[j].name => i = j

\* C9: within one instance no two datasets share a name; creating a dataset
\* under a name the active database already has fails and leaves its
\* datasets as they were; creating it under a name the active database does
\* not have succeeds, whatever the other databases hold.
C9_DatasetNamesUnique ==
  [][/\ \A d \in DOMAIN databases' : NamesUnique(databases'[d])
     /\ last'.op = "create_dataset" =>
          LET before == databases[active_db]
              after == databases'[active_db]
          IN IF has_dataset(before, last'.name)
             THEN /\ ~last'.ok
                  /\ after.dataset_store.datasets = before.dataset_store.datasets
                  /\ after.dataset_store.names = before.dataset_store.names
             ELSE /\ last'.ok
                  /\ has_dataset(after, last'.name)
                  /\ get_dataset(after, last'.name).rows = <<>>
    ]_vars

\* a dataset has just been created under a name that another database
\* holds with rows in it
C9_Witness ==
  /\ last.op = "create_dataset"
  /\ last.ok
  /\ has_dataset(databases[active_db], last.name)
  /\ \E d \in DOMAIN databases \ {active_db} :
       /\ has_dataset(databases[d], last.name)
       /\ get_dataset(databases[d], last.name).rows # <<>>

DatasetNamesOf(inst) == DOMAIN inst.dataset_store.names

\* C10: a statement run while one database is active leaves the registry,
\* the active name and every other database as they were, succeeds on a
\* dataset only if the active database holds it, and brings no name into the
\* active database but the one it defines; use_database changes no
\* database, so the contents are as they were left on switching back.
C10_DatabasesIsolated ==
  [][/\ last'.op \in {"create_dataset", "insert", "define_tensor"} =>
          /\ active_db' = active_db
          /\ DOMAIN databases' = DOMAIN databases
          /\ \A d \in DOMAIN databases \ {active_db} :
               databases'[d] = databases[d]
          /\ (last'.op = "insert" /\ last'.ok)
               => has_dataset(databases[active_db], last'.name)
          /\ DatasetNamesOf(databases'[active_db])
               \subseteq DatasetNamesOf(databases[active_db]) \cup {last'.name}
          /\ DOMAIN databases'[active_db].names
               \subseteq DOMAIN databases[active_db].names \cup {last'.name}
     /\ last'.op = "use_database" => databases' = databases
    ]_vars

\* the engine has switched back to a database whose dataset t has one row
\* while the database it left holds a dataset t with two rows and a tensor
C10_Witness ==
  /\ last.op = "use_database"
  /\ last.ok
  /\ has_dataset(databases[active_db], "t")
  /\ Len(get_dataset(databases[active_db], "t").rows) = 1
  /\ \E d \in DOMAIN databases \ {active_db} :
       /\ has_dataset(databases[d], "t")
       /\ Len(get_dataset(databases[d], "t").rows) = 2
       /\ DOMAIN databases[d].names # {}
       /\ DOMAIN databases[active_db].names = {}

\* C11: the tensor store of every database only grows (the tensors it held
\* stay, in their places), and the IDs of the tensors it holds are strictly
\* increasing in insertion order, after every tensor statement, failed or not.
C11_StoreGrowsIdsIncrease ==
  [][\A d \in DOMAIN databases \cap DOMAIN databases' :
       LET old == databases[d].store.tensors
           new == databases'[d].store.tensors
       IN /\ Len(old) <= Len(new)
          /\ SubSeq(new, 1, Len(old)) = old
          /\ \A i, j \in 1..Len(new) : i < j => new[i].id < new[j].id
    ]_vars

\* C12: after every successful binary operation on named tensors (add,
\* subtract, multiply, divide, correlate, matmul) the output name is bound
\* with kind Strict if and only if at least one of the two inputs is Strict.
C12_OutputStrictIffAnInputStrict ==
  [][(last'.op \in BinaryOps \cup {"matmul"} /\ last'.ok) =>
       LET a == get_with_kind(databases[active_db], last'.left)
           b == get_with_kind(databases[active_db], last'.right)
           out == databases'[active_db].names[last'.name]
       IN /\ has_tensor(databases[active_db], last'.left)
          /\ has_tensor(databases[active_db], last'.right)
          /\ out.kind = "Strict" <=> (a.kind = "Strict" \/ b.kind = "Strict")
    ]_vars

\* a binary operation has succeeded on a Normal left operand and a Strict
\* right operand, and its output is bound Strict
C12_Witness ==
  /\ last.op \in BinaryOps
  /\ last.ok
  /\ last.left # last.name
  /\ last.right # last.name
  /\ active_instance.names[last.left].kind = "Normal"
  /\ active_instance.names[last.right].kind = "Strict"
  /\ active_instance.names[last.name].kind = "Strict"

\* C13: an element-wise add, subtract, multiply or divide of two named
\* tensors whose shapes differ fails and binds no output whenever either
\* operand is Strict; it succeeds only when both operands are Normal, and
\* then its result is the one of the relaxed rules (scalar broadcast,
\* rank-1 padding).
C13_StrictShapeMismatchFails ==
  [][(/\ last'.op \in ElementOps
      /\ has_tensor(databases[active_db], last'.left)
      /\ has_tensor(databases[active_db], last'.right)) =>
       LET inst == databases[active_db]
           a == get_with_kind(inst, last'.left)
           b == get_with_kind(inst, last'.right)
           new == databases'[active_db]
       IN a.tensor.shape # b.tensor.shape =>
            /\ ("Strict" \in {a.kind, b.kind}) =>
                 /\ ~last'.ok
                 /\ new.names = inst.names
                 /\ new.store.tensors = inst.store.tensors
            /\ last'.ok =>
                 /\ a.kind = "Normal"
                 /\ b.kind = "Normal"
                 /\ relaxed(last'.op, a.tensor, b.tensor, inst.store.next_id).ok
                 /\ get_with_kind(new, last'.name).tensor =
                      relaxed(last'.op, a.tensor, b.tensor,
                              inst.store.next_id).tensor
    ]_vars

\* an element-wise operation on a Strict vector of two elements and a Normal
\* vector of one element has failed, and nothing is bound to c
C13_Witness ==
  /\ last.op \in ElementOps
  /\ ~last.ok
  /\ has_tensor(active_instance, last.left)
  /\ has_tensor(active_instance, last.right)
  /\ get_with_kind(active_instance, last.left).kind = "Strict"
  /\ get_with_kind(active_instance, last.right).kind = "Normal"
  /\ get_with_kind(active_instance, last.left).tensor.shape = <<2>>
  /\ get_with_kind(active_instance, last.right).tensor.shape = <<1>>
  /\ ~has_tensor(active_instance, last.name)

\* C14: every kernel call returns a tensor or an error value, whatever the
\* input (out-of-range indices, out-of-range or reversed ranges, wrong rank,
\* mismatched shapes, zero divisors): no tensor statement ends in a panic.
C14_KernelsNeverPanic == last.op # "panic"

\* the names evaluate_operand gives the temporaries of a statement
TempNames ==
  {TempName(out, side, ts) :
     out \in OutputNames, side \in {"L", "R"}, ts \in Timestamps}

\* C18: the temporary tensors a statement produces as intermediates are
\* released when the statement is over: after an infix statement no
\* temporary name is bound, and the store has grown by at most the one
\* tensor of the statement's output.
C18_TemporariesReleased ==
  [][last'.op = "infix" =>
       /\ DOMAIN databases'[active_db].names \cap TempNames = {}
       /\ Len(databases'[active_db].store.tensors)
            <= Len(databases[active_db].store.tensors) + 1
    ]_vars

\* the tasks that hold the guard and run a statement against the engine
Running == {r \in Requests : srv.tasks[r].pc = "running"}

\* C15: at most one statement is executing against the engine at any
\* instant, while one is executing no step of another task changes the
\* engine, and the engine a finished statement leaves is the one
\* execute_line gives on the engine the statement found when it started.
C15_StatementsMutuallyExclusive ==
  [][/\ Cardinality(Running) <= 1
     /\ Cardinality(Running') <= 1
     /\ \A r \in Requests :
          /\ (srv.tasks[r].pc = "running" /\ srv'.tasks[r] = srv.tasks[r])
               => databases' = databases
          /\ (srv.tasks[r].pc = "running" /\ srv'.tasks[r].pc = "done") =>
               \E overflow_checks \in BOOLEAN :
                 LET whole == execute_line(srv.tasks[r].seen[1],
                                           srv.tasks[r].cmd, r, overflow_checks)
                 IN /\ ~whole.panic
                    /\ databases'[active_db] = whole.inst
                    /\ srv'.tasks[r].ok = whole.ok
    ]_vars

\* a statement of two engine calls has just finished while another request,
\* already timed out, was waiting for the mutex
C15_Witness ==
  \E r \in Requests :
    /\ srv.tasks[r].pc = "done"
    /\ srv.tasks[r].cmd = "infix"
    /\ srv.tasks[r].ok
    /\ srv.executed # <<>>
    /\ srv.executed[Len(srv.executed)] = r
    /\ \E q \in Requests \ {r} :
         /\ srv.tasks[q].pc = "spawned"
         /\ srv.tasks[q].resp = "timeout"

\* C16: statements take effect in the order of their submission: when a
\* statement executes, every statement submitted before it has been applied.
\* (Requests are numbered in submission order.)
C16_EffectsInSubmissionOrder ==
  \A r \in Requests :
    srv.tasks[r].pc \in {"running", "done"} =>
      \A q \in 1..(r - 1) : srv.tasks[q].pc = "done"

\* C17: a statement whose request has timed out is not interrupted: it
\* still runs to completion on the server (and by then its effects are in
\* the engine every later statement locks).
C17_TimedOutStatementCompletes ==
  \A r \in Requests :
    [](srv.tasks[r].resp = "timeout" => <>(srv.tasks[r].pc = "done"))

\* the rows the aggregation of the last step read: the dataset t before it
AggInput == SeqScanExec(databases[active_db], "t").rows

\* C19: aggregation succeeds and emits exactly one row per distinct group
\* key of its input (none for an empty input, one for an ungrouped
\* aggregation of a non-empty input); a row is the group key followed by
\* one value per aggregate in declaration order, a Count being the number of
\* rows of the group; this whatever the types of the group-key columns.
C19_OneRowPerGroupKey ==
  [][last'.op = "aggregate" =>
       LET rows == AggInput
           group_expr == last'.group_expr
           aggr_expr == last'.aggr_expr
           keys == {GroupKey(rows[i], group_expr) : i \in 1..Len(rows)}
           out == last'.rows
       IN /\ last'.ok
          /\ Len(out) = Cardinality(keys)
          /\ \A key \in keys :
               \E g \in 1..Len(out) :
                 /\ Len(out[g]) = Len(group_expr) + Len(aggr_expr)
                 /\ SubSeq(out[g], 1, Len(group_expr)) = key
                 /\ \A j \in 1..Len(aggr_expr) :
                      aggr_expr[j].func = "Count" =>
                        out[g][Len(group_expr) + j] =
                          IntV(Cardinality({i \in 1..Len(rows) :
                                  GroupKey(rows[i], group_expr) = key}))
    ]_vars

\* the sum of column col over the rows with the key, in halves
HalvesOf(v) == IF v.t = "Int" THEN 2 * v.i ELSE v.i
GroupSumHalves(rows, group_expr, key, col) ==
  SumSeq([m \in 1..Len(SelectSeq(rows, LAMBDA row :
                                   GroupKey(row, group_expr) = key)) |->
            HalvesOf(evaluate_expression(ColE(col),
                       SelectSeq(rows, LAMBDA row :
                                   GroupKey(row, group_expr) = key)[m]))])

\* C20: in every row a successful aggregation emits, the value of an Avg
\* over a numeric scalar column is a Float, also when the column is Int, and
\* equals the sum of the column over the rows of the row's group divided by
\* the number of those rows.
C20_AvgIsSumOverCount ==
  [][(last'.op = "aggregate" /\ last'.ok) =>
       LET rows == AggInput
           group_expr == last'.group_expr
           aggr_expr == last'.aggr_expr
       IN \A g \in 1..Len(last'.rows), j \in 1..Len(aggr_expr) :
            aggr_expr[j].func = "Avg" =>
              LET key == SubSeq(last'.rows[g], 1, Len(group_expr))
                  n == Cardinality({i \in 1..Len(rows) :
                                      GroupKey(rows[i], group_expr) = key})
                  avg == last'.rows[g][Len(group_expr) + j]
              IN /\ n > 0
                 /\ avg.t = "Float"
                 /\ avg = FloatArith(GroupSumHalves(rows, group_expr, key,
                                                    aggr_expr[j].col),
                                     "/", 2 * n)
    ]_vars

\* a grouped aggregation has emitted the average 1.5 for a group of two
\* rows whose Int column holds 1 and 2
C20_Witness ==
  /\ last.op = "aggregate"
  /\ last.ok
  /\ last.group_expr = <<"k">>
  /\ last.aggr_expr = <<AggE("Avg", "x")>>
  /\ last.rows = <<(<<StrV("n"), FloatV(3)>>)>>
  /\ Len(get_dataset(active_instance, "t").rows) = 2

\* the name "FUNC(col)" of an aggregate's output field
AggFieldName(agg) == agg.func \o "(" \o agg.col \o ")"

\* C21: the output schema of an Aggregate plan lists the group-key fields
\* first, each with the type it has in the input schema, then one field per
\* aggregate named "FUNC(col)", typed Int for Count, Float for Avg and the
\* inner column's type for Sum, Min and Max.
C21_AggregateSchemaFields ==
  [][last'.op = "aggregate" =>
       LET input == get_dataset(databases[active_db], "t").schema.fields
           group_expr == last'.group_expr
           aggr_expr == last'.aggr_expr
           fields == last'.fields
       IN /\ Len(fields) = Len(group_expr) + Len(aggr_expr)
          /\ \A j \in 1..Len(group_expr) :
               /\ fields[j].name = group_expr[j]
               /\ fields[j].value_type =
                    input[get_field_index(input, group_expr[j])].value_type
          /\ \A j \in 1..Len(aggr_expr) :
               LET field == fields[Len(group_expr) + j]
                   func == aggr_expr[j].func
               IN /\ field.name = AggFieldName(aggr_expr[j])
                  /\ field.value_type =
                       CASE func = "Count" -> ScalarT("Int")
                         [] func = "Avg" -> ScalarT("Float")
                         [] OTHER ->
                              input[get_field_index(input, aggr_expr[j].col)]
                                .value_type
    ]_vars


EqualityOnHashIndex(ds, nodes) ==
  /\ nodes # <<>>
  /\ nodes[1].k = "Filter"
  /\ nodes[1].predicate.op = "="
  /\ nodes[1].predicate.left.name \in DOMAIN ds.indices
  /\ ds.indices[nodes[1].predicate.left.name].kind = "Hash"

\* C23: the planner produces an IndexScan exactly when the plan is a Filter
\* directly over a Scan, the predicate is Column(c) = Literal(v) and the
\* dataset has a Hash index on c; in every other case, a Vector index on c
\* included, it produces a SeqScan and every Filter node stays a row-by-row
\* Filter operator.
C23_IndexScanIffHashEquality ==
  [][(last'.op = "query" /\ last'.planned) =>
       LET ds == get_dataset(databases[active_db], "t")
           nodes == last'.nodes
       IN IF EqualityOnHashIndex(ds, nodes)
          THEN last'.leaf = "IndexScan"
          ELSE /\ last'.leaf = "SeqScan"
               /\ Len(last'.pops) = Len(nodes)
               /\ \A j \in 1..Len(nodes) :
                    nodes[j].k = "Filter" => last'.pops[j] = "Filter"
    ]_vars

\* an equality filter on a hash-indexed column was planned as an IndexScan
\* and returned a row
C23_Witness ==
  /\ last.op = "query"
  /\ last.executed
  /\ last.leaf = "IndexScan"
  /\ last.nodes = <<FilterNode("a", "=", IntV(1))>>
  /\ Len(last.rows) > 0

\* an equality filter on a column with a Vector index was planned as a
\* SeqScan feeding a Filter
C23_WitnessVectorIndex ==
  /\ last.op = "query"
  /\ last.planned
  /\ last.nodes = <<FilterNode("v", "=", IntV(1))>>
  /\ "v" \in DOMAIN get_dataset(databases[active_db], "t").indices
  /\ get_dataset(databases[active_db], "t").indices["v"].kind = "Vector"
  /\ last.leaf = "SeqScan"
  /\ last.pops = <<"Filter">>

\* the comparison op holds for an ordering of the two sides
ComparisonHolds(op, ord) ==
  CASE op = "=" -> ord = "Equal"
    [] op = "!=" -> ord \in {"Less", "Greater"}
    [] op = ">" -> ord = "Greater"
    [] op = "<" -> ord = "Less"
    [] op = ">=" -> ord \in {"Greater", "Equal"}
    [] op = "<=" -> ord \in {"Less", "Equal"}

\* C24: a Filter whose predicate is a comparison with one of = != > < >= <=
\* keeps exactly the rows for which the comparison holds under the value
\* ordering, in their order, and drops every row whose two sides are
\* incomparable.
C24_FilterKeepsComparingRows ==
  [][(/\ last'.op = "query"
      /\ last'.executed
      /\ Len(last'.nodes) = 1
      /\ last'.nodes[1].k = "Filter") =>
       LET ds == get_dataset(databases[active_db], "t")
           predicate == last'.nodes[1].predicate
           kept == SelectSeq(ds.rows,
                     LAMBDA row :
                       ComparisonHolds(predicate.op,
                         compare(TupleGet(row, predicate.left.name),
                                 predicate.right.val)))
       IN [j \in 1..Len(last'.rows) |-> last'.rows[j].values]
            = [j \in 1..Len(kept) |-> kept[j].values]
    ]_vars


\* the square of d with the sign of d
SignedSquare(d) == IF d >= 0 THEN d * d ELSE 0 - d * d

\* x has a strictly higher cosine similarity to q than y has (no zero norm)
MoreSimilar(q, x, y) ==
  SignedSquare(Dot(q, x)) * Dot(y, y) > SignedSquare(Dot(q, y)) * Dot(x, x)

\* the dataset has a Vector index on v and neither the query nor a stored
\* vector has zero norm
Searchable(inst, query) ==
  /\ has_dataset(inst, "t")
  /\ "v" \in DOMAIN get_dataset(inst, "t").indices
  /\ get_dataset(inst, "t").indices["v"].kind = "Vector"
  /\ Dot(query, query) # 0
  /\ \A j \in 1..Len(get_dataset(inst, "t").rows) :
       LET x == TupleGet(get_dataset(inst, "t").rows[j], "v").x
       IN Dot(x, x) # 0

\* C25: a search with k over a dataset with a Vector index on the column
\* succeeds and returns min(k, number of rows) distinct rows of the
\* dataset, ordered by descending cosine similarity of their vector to the
\* query, and no row left out is more similar than a row returned.
C25_SearchReturnsTopK ==
  [][(last'.op \in {"search", "panic"}
      /\ Searchable(databases[active_db], last'.query)) =>
       /\ last'.op = "search"
       /\ last'.ok
       /\ LET rows == get_dataset(databases[active_db], "t").rows
              out == get_dataset(databases'[active_db], "u").rows
              q == last'.query
              Vec(j) == TupleGet(rows[j], "v").x
          IN /\ Len(out) = IF last'.k < Len(rows) THEN last'.k ELSE Len(rows)
             /\ \E p \in [1..Len(out) -> 1..Len(rows)] :
                  /\ \A i, j \in 1..Len(out) : p[i] = p[j] => i = j
                  /\ \A j \in 1..Len(out) : out[j].values = rows[p[j]].values
                  /\ \A i, j \in 1..Len(out) :
                       i < j => ~MoreSimilar(q, Vec(p[j]), Vec(p[i]))
                  /\ \A r \in 1..Len(rows), j \in 1..Len(out) :
                       (\A i \in 1..Len(out) : p[i] # r)
                         => ~MoreSimilar(q, Vec(r), Vec(p[j]))
    ]_vars

\* cosine_similarity_1d of the kernels, on the data of two rank-1 tensors
\* of one length: [ok, score], the score as in cosine_similarity
cosine_similarity_1d(a, b) ==
  IF Len(a) # Len(b) THEN [ok |-> FALSE, score |-> [dot |-> 0, norm2 |-> 1]]
  ELSE IF Dot(a, a) = 0 \/ Dot(b, b) = 0
  THEN [ok |-> FALSE, score |-> [dot |-> 0, norm2 |-> 1]]
  ELSE [ok |-> TRUE,
        score |-> [dot |-> Dot(a, b), norm2 |-> Dot(a, a) * Dot(b, b)]]

\* the vectors a search on v compares with its query
IndexedVectors(inst) ==
  IF /\ has_dataset(inst, "t")
     /\ "v" \in DOMAIN get_dataset(inst, "t").indices
     /\ get_dataset(inst, "t").indices["v"].kind = "Vector"
  THEN {get_dataset(inst, "t").indices["v"].vectors[j].data :
          j \in 1..Len(get_dataset(inst, "t").indices["v"].vectors)}
  ELSE {}

\* C26: every cosine-similarity computation with a zero-norm input fails
\* with an error: the 1-D kernel does on the vectors a search compares, and
\* a search whose query or one of whose indexed vectors has zero norm fails.
C26_ZeroNormIsAnError ==
  [][last'.op \in {"search", "panic"} =>
       \A x \in IndexedVectors(databases[active_db]) :
         (Dot(x, x) = 0 \/ Dot(last'.query, last'.query) = 0) =>
           /\ ~cosine_similarity_1d(last'.query, x).ok
           /\ ~last'.ok
    ]_vars

\* C28: a row append that fails leaves the dataset's rows, statistics and
\* every one of its indices as they were, so no index holds a row ID for a
\* row that was not stored.
C28_FailedAppendChangesNothing ==
  [][(last'.op = "insert" /\ ~last'.ok) => databases' = databases]_vars


\* C27: under every configuration and after any sequence of
\* create_database, use_database and drop_database calls the active
\* database is registered, so that no statement panics resolving it.
C27_ActiveDatabaseRegistered ==
  /\ active_db \in DOMAIN databases
  /\ last.op # "panic"


\* C29: whatever statements failed or panicked before it, a statement
\* submitted to the server is executed against the engine: its task, once
\* it stops waiting for the engine lock, runs execute_line, and it gets a
\* result of its own rather than the report of a panic it did not cause.
C29_LaterStatementsStillExecute ==
  [][\A r \in Requests :
       srv.tasks[r].pc = "spawned" =>
         /\ srv'.tasks[r].pc \in {"spawned", "running"}
         /\ srv'.tasks[r].resp # "panicked"
    ]_vars


\* C30: in every dataset of every database, every schema field marked
\* is_lazy has an expression in the dataset's lazy registry.
C30_LazyFieldsHaveExpressions ==
  \A d \in DOMAIN databases :
    \A id \in DOMAIN databases[d].dataset_store.datasets :
      LET ds == databases[d].dataset_store.datasets[id]
      IN \A j \in 1..Len(ds.schema.fields) :
           ds.schema.fields[j].is_lazy =>
             ds.schema.fields[j].name \in DOMAIN ds.lazy_expressions

====
